---------------------------- MODULE Spec2Model ----------------------------
(***************************************************************************)
(* State-machine model of developmeh/webrtc-poc: the paced line streamer   *)
(* (internal/server StreamFile, cmd streamFile), the line processor        *)
(* (internal/client ProcessLines), the /offer signaling handler, the       *)
(* server's drain on shutdown and the client's handshake.                  *)
(*                                                                         *)
(* Text is a sequence of one-character strings.  A file is such a          *)
(* sequence; a line is a sequence without "\n".                            *)
(***************************************************************************)
EXTENDS Integers, Sequences, FiniteSets, TLC

\* ------------------------------------------------------------------ bounds
MaxFileLen == 3
MaxFailAt == 3
MaxDelay == 1
MaxMockLines == 2
MaxWriteFailAt == 2
NumReq == 1
NumSess == 2
MaxSrcOps == 3
MaxSdpLen == 2

NL == "\n"
CR == "\r"
Chars == {"a", CR, NL}

\* ------------------------------------------------------------------ state
VARIABLES
    \* StreamFile(writer, filename, delayMs)
    file,        \* content of the file named by filename
    openErr,     \* TRUE when os.Open(filename) fails
    failAt,      \* writer: SendText fails from its failAt-th call on (0: never)
    fault,       \* writer: how SendText fails, "error" (returns one) or "panic"
    delayMs,     \* pacing delay
    sfPc,        \* position of StreamFile
    pos,         \* scanner: index of the first unread character
    line,        \* scanner.Text()
    sfLineCount, \* lineCount of StreamFile
    wLines,      \* MockLineWriter.Lines
    sfTrace,     \* history: SendText calls and pacing sleeps, in order
    sfRet,       \* value returned by StreamFile
    \* ProcessLines(receiver, output)
    output,      \* "": stdout, "file": a path that can be created, "dir": a directory
    writeFailAt, \* outputFile.WriteString fails on its writeFailAt-th call (0: never)
    plPc,        \* position of ProcessLines
    plLineCount, \* lineCount of ProcessLines
    sink,        \* content of the output file
    stdout,      \* text written to os.Stdout
    plRet,       \* values returned by ProcessLines
    \* the two channels ReceiveLines returns
    lineChanClosed, \* lineChan (unbuffered) has been closed
    errBuf,         \* errChan's buffer (capacity 1)
    errChanClosed,  \* errChan has been closed
    \* MockLineReceiver and its goroutine
    mLines,      \* MockLineReceiver.Lines
    mErr,        \* MockLineReceiver.Err: "nil", "EOF" (io.EOF) or "testErr"
    mPc,         \* position of the goroutine ReceiveLines starts
    mIdx,        \* index of the next line the goroutine sends
    \* runServer
    srvFile,     \* content of the file the server streams
    srvPc,       \* position of runServer's main goroutine
    listener,    \* the goroutine running server.ListenAndServe()
    shutdown,    \* the shutdown channel holds a signal
    wg,          \* counter of the sync.WaitGroup
    req,         \* per request: the /offer handler's position and what it built
    sess,        \* per data channel: the goroutine that OnOpen starts
    inFlight,    \* history: per session, the lines it had sent when the signal arrived (-1: not in flight)
    pidAt,       \* history: the listener's state when SERVER_PID was printed
    srvExit,     \* exit status of the server process (-1: running)
    \* runClient
    cPc,         \* position of runClient's main goroutine
    cSteps,      \* history: the negotiation calls made, in order
    cResp,       \* the HTTP response to the POST
    cExit,       \* exit status of the client process (-1: running)
    cShutdown,   \* the client's shutdown channel holds a signal
    wire,        \* messages the transport has still to deliver to the client
    channel,     \* the remote data channel as the client's transport sees it
    dataChan,    \* the value an OnMessage callback offers on dataChan (unbuffered)
    dataChanClosed, \* close(dataChan) has run
    rxPc,        \* position of the receiving goroutine
    rxCount,     \* lineCount of the receiving goroutine
    cOut,        \* the lines the client has written
    \* a LineReceiver that sends on the two channels in any order
    srcOffer,    \* the line its goroutine is blocked sending on lineChan
    srcLog,      \* history: what it has done to the channels, in order
    \* the signaling exchange: one offer POSTed, one answer returned
    sgPc,        \* how far the exchange has come
    cOffer,      \* runClient: offer = *peerConnection.LocalDescription()
    offerJSON,   \* runClient: offerJSON, the body of the POST
    sOffer,      \* handler: the offer it unmarshalled and applies
    sAnswer,     \* handler: answer = *peerConnection.LocalDescription()
    answerJSON,  \* runClient: answerJSON, the body of the response
    cAnswer      \* runClient: the answer it unmarshalled and applies

sfVars == <<file, openErr, failAt, fault, delayMs, sfPc, pos, line, sfLineCount,
            wLines, sfTrace, sfRet>>
plVars == <<output, writeFailAt, plPc, plLineCount, sink, stdout, plRet>>
chVars == <<lineChanClosed, errBuf, errChanClosed>>
mVars == <<mLines, mErr, mPc, mIdx>>

srvVars == <<srvFile, srvPc, listener, shutdown, wg, req, sess, inFlight, pidAt,
            srvExit>>

cliVars == <<cPc, cSteps, cResp, cExit, cShutdown, wire, channel, dataChan,
             dataChanClosed, rxPc, rxCount, cOut>>

srcVars == <<srcOffer, srcLog>>

sigVars == <<sgPc, cOffer, offerJSON, sOffer, sAnswer, answerJSON, cAnswer>>

vars == <<sfVars, plVars, chVars, mVars, srvVars, cliVars, srcVars, sigVars>>

\* ------------------------------------------------------------ text helpers
RECURSIVE Splice(_)
\* concatenation of a sequence of character sequences
Splice(ss) == IF ss = <<>> THEN <<>> ELSE Head(ss) \o Splice(Tail(ss))

Files == UNION {[1..n -> Chars] : n \in 0..MaxFileLen}

\* --------------------------------------------------------- bufio.Scanner
\* index of the first "\n" at or after p, 0 when there is none
NextNL(f, p) ==
    LET S == {i \in p..Len(f) : f[i] = NL}
    IN  IF S = {} THEN 0 ELSE CHOOSE i \in S : \A j \in S : i <= j

\* dropCR: a token loses one trailing "\r"
DropCR(t) == IF t # <<>> /\ t[Len(t)] = CR THEN SubSeq(t, 1, Len(t) - 1) ELSE t

\* a scanner that gives up one character early
ScanHasTokenOffByOne(f, p) == p < Len(f)

\* scanner.Scan(): TRUE while unread characters remain
ScanHasToken(f, p) == p <= Len(f)

\* scanner.Text() after a successful Scan from p
ScanToken(f, p) ==
    LET i == NextNL(f, p)
    IN  DropCR(IF i = 0 THEN SubSeq(f, p, Len(f)) ELSE SubSeq(f, p, i - 1))

\* the scanner's position after a successful Scan from p
ScanAdvance(f, p) ==
    LET i == NextNL(f, p) IN IF i = 0 THEN Len(f) + 1 ELSE i + 1

\* ------------------------------------------------- MockLineWriter.SendText
\* number of SendText calls made so far
SendCalls == Len(SelectSeq(sfTrace, LAMBDA e : e[1] = "send"))

\* the writer's answer to the next SendText call
SendTextFails == failAt # 0 /\ SendCalls + 1 >= failAt

\* ------------------------------------------------------------- StreamFile
notSf == <<plVars, chVars, mVars, srvVars, cliVars, srcVars, sigVars>>
notPl == <<sfVars, mVars, srvVars, cliVars, srcVars, sigVars>>

\* a StreamFile that ignores the error of os.Open and scans an empty reader
SFOpenIgnoresErr ==
    /\ sfPc = "open"
    /\ sfPc' = "scan"
    /\ sfRet' = sfRet
    /\ pos' = 1
    /\ UNCHANGED <<file, openErr, failAt, fault, delayMs, line, sfLineCount, wLines, sfTrace>>

\* os.Open(filename)
SFOpenStep ==
    /\ sfPc = "open"
    /\ IF openErr
         THEN /\ sfPc' = "returned"
              /\ sfRet' = "openErr"
              /\ pos' = pos
         ELSE /\ sfPc' = "scan"
              /\ sfRet' = sfRet
              /\ pos' = 1
    /\ UNCHANGED <<file, openErr, failAt, fault, delayMs, line, sfLineCount, wLines, sfTrace>>

\* for scanner.Scan() { line := scanner.Text(); lineCount++ ... }; return nil
SFScanStep ==
    /\ sfPc = "scan"
    /\ IF ScanHasToken(file, pos)
         THEN /\ line' = ScanToken(file, pos)
              /\ pos' = ScanAdvance(file, pos)
              /\ sfLineCount' = sfLineCount + 1
              /\ sfPc' = "send"
              /\ sfRet' = sfRet
         ELSE /\ sfPc' = "returned"
              /\ sfRet' = "nil"
              /\ UNCHANGED <<line, pos, sfLineCount>>
    /\ UNCHANGED <<file, openErr, failAt, fault, delayMs, wLines, sfTrace>>

\* a StreamFile that logs the send error and carries on with the pacing sleep
SendErrPcCarriesOn == "sleep"

\* where StreamFile goes when SendText returned an error
SendErrPc == "returned"

\* what StreamFile returns after its deferred function recovered a panic: the
\* result is unnamed and the deferred function only logs, so the zero value
RecoveredRet == "nil"

\* if err := writer.SendText(line); err != nil { return err }
\* a panic inside SendText unwinds to the deferred recover()
SFSendTextStep ==
    /\ sfPc = "send"
    /\ IF SendTextFails
         THEN IF fault = "panic"
                THEN /\ sfTrace' = Append(sfTrace, <<"panic", line>>)
                     /\ sfPc' = "returned"
                     /\ sfRet' = RecoveredRet
                     /\ wLines' = wLines
                ELSE /\ sfTrace' = Append(sfTrace, <<"send", line, FALSE>>)
                     /\ sfPc' = SendErrPc
                     /\ sfRet' = "sendErr"
                     /\ wLines' = wLines
         ELSE /\ sfTrace' = Append(sfTrace, <<"send", line, TRUE>>)
              /\ wLines' = Append(wLines, line)
              /\ sfPc' = "sleep"
              /\ sfRet' = sfRet
    /\ UNCHANGED <<file, openErr, failAt, fault, delayMs, pos, line, sfLineCount>>

\* a StreamFile that does not pause between lines
SFSleepSkipped ==
    /\ sfPc = "sleep"
    /\ sfTrace' = sfTrace
    /\ sfPc' = "scan"
    /\ UNCHANGED <<file, openErr, failAt, fault, delayMs, pos, line, sfLineCount, wLines, sfRet>>

\* time.Sleep(time.Duration(delayMs) * time.Millisecond)
SFSleepStep ==
    /\ sfPc = "sleep"
    /\ sfTrace' = Append(sfTrace, <<"sleep", delayMs>>)
    /\ sfPc' = "scan"
    /\ UNCHANGED <<file, openErr, failAt, fault, delayMs, pos, line, sfLineCount, wLines, sfRet>>

SFOpen == SFOpenStep /\ UNCHANGED notSf
SFScan == SFScanStep /\ UNCHANGED notSf
SFSendText == SFSendTextStep /\ UNCHANGED notSf
SFSleep == SFSleepStep /\ UNCHANGED notSf

SFInit ==
    /\ file \in Files
    /\ openErr \in BOOLEAN
    /\ failAt \in 0..MaxFailAt
    /\ fault \in IF failAt = 0 THEN {"error"} ELSE {"error", "panic"}
    /\ delayMs \in 0..MaxDelay
    /\ sfPc = "open"
    /\ pos = 0
    /\ line = <<>>
    /\ sfLineCount = 0
    /\ wLines = <<>>
    /\ sfTrace = <<>>
    /\ sfRet = "none"

\* StreamFile is not part of the run
SFIdle ==
    /\ file = <<>>
    /\ openErr = FALSE
    /\ failAt = 0
    /\ fault = "error"
    /\ delayMs = 0
    /\ sfPc = "idle"
    /\ pos = 0
    /\ line = <<>>
    /\ sfLineCount = 0
    /\ wLines = <<>>
    /\ sfTrace = <<>>
    /\ sfRet = "none"

\* ----------------------------------------------------------- ProcessLines
NoRet == [count |-> 0, elapsed |-> "none", err |-> "none"]

\* outputFile.WriteString(line + "\n") returns an error
WriteFails == writeFailAt # 0 /\ plLineCount + 1 = writeFailAt

\* the line count ProcessLines returns when the write of a line failed:
\* lineCount was incremented before the write
WriteErrCount == plLineCount + 1

\* a write that forgets the line terminator
FramedBare(l) == l

\* a write that ends the line twice
FramedTwice(l) == l \o <<NL, NL>>

\* what one line adds to the output
Framed(l) == l \o <<NL>>

\* case line, ok := <-lineChan with ok: count, write, log
PLOnLine(l) ==
    /\ plLineCount' = plLineCount + 1
    /\ IF output # ""
         THEN IF WriteFails
                THEN /\ plPc' = "returned"
                     /\ plRet' = [count |-> WriteErrCount, elapsed |-> "since", err |-> "writeErr"]
                     /\ UNCHANGED <<sink, stdout>>
                ELSE /\ sink' = sink \o Framed(l)
                     /\ UNCHANGED <<plPc, plRet, stdout>>
         ELSE /\ stdout' = stdout \o Framed(l)
              /\ UNCHANGED <<plPc, plRet, sink>>
    /\ UNCHANGED <<output, writeFailAt>>

\* a ProcessLines that carries on without an output file when os.Create fails
PLCreateIgnoresErr ==
    /\ plPc = "create"
    /\ plPc' = "receive"
    /\ plRet' = plRet
    /\ sink' = IF output = "file" THEN <<>> ELSE sink
    /\ UNCHANGED <<output, writeFailAt, plLineCount, stdout>>

\* os.Create(output) when output != ""
PLCreateStep ==
    /\ plPc = "create"
    /\ IF output = "dir"
         THEN /\ plPc' = "returned"
              /\ plRet' = [count |-> 0, elapsed |-> "zero", err |-> "createErr"]
              /\ sink' = sink
         ELSE /\ plPc' = "receive"
              /\ plRet' = plRet
              /\ sink' = IF output = "file" THEN <<>> ELSE sink
    /\ UNCHANGED <<output, writeFailAt, plLineCount, stdout>>

\* case line, ok := <-lineChan with !ok: return lineCount, elapsed, nil
PLLineClosedStep ==
    /\ plPc = "loop"
    /\ lineChanClosed
    /\ plPc' = "returned"
    /\ plRet' = [count |-> plLineCount, elapsed |-> "since", err |-> "nil"]
    /\ UNCHANGED <<output, writeFailAt, plLineCount, sink, stdout, chVars>>

\* a loop that hands every received error back, the sentinel included
RecvErrVerbatim(e) == e

\* a loop that ends without error whatever it received
RecvErrSwallowed(e) == "nil"

\* the error ProcessLines returns for a received error: io.EOF is the expected
\* end of the stream, anything else is returned as it is
RecvErrResult(e) == IF e = "EOF" THEN "nil" ELSE e

\* a loop that drains lineChan to its close before it looks at errChan
ErrCaseAfterLines == errBuf # <<>> /\ lineChanClosed

\* select: the case err, ok := <-errChan can receive a value
ErrCaseReady == errBuf # <<>>

\* case err, ok := <-errChan with ok: return lineCount, elapsed, nil or err
PLRecvErrStep ==
    /\ plPc = "loop"
    /\ ErrCaseReady
    /\ errBuf' = Tail(errBuf)
    /\ plPc' = "returned"
    /\ plRet' = [count |-> plLineCount, elapsed |-> "since",
                 err |-> RecvErrResult(Head(errBuf))]
    /\ UNCHANGED <<output, writeFailAt, plLineCount, sink, stdout,
                   lineChanClosed, errChanClosed>>

\* a loop that takes the close of errChan for the end of the stream
PLErrClosedReturns ==
    /\ plPc = "loop"
    /\ errBuf = <<>>
    /\ errChanClosed
    /\ plPc' = "returned"
    /\ plRet' = [count |-> plLineCount, elapsed |-> "since", err |-> "nil"]
    /\ UNCHANGED <<output, writeFailAt, plLineCount, sink, stdout, chVars>>

\* case err, ok := <-errChan with !ok: continue
PLErrClosedStep ==
    /\ plPc = "loop"
    /\ errBuf = <<>>
    /\ errChanClosed
    /\ UNCHANGED <<plVars, chVars>>

PLInit ==
    /\ output \in {"", "file", "dir"}
    /\ writeFailAt \in 0..MaxWriteFailAt
    /\ plPc = "create"
    /\ plLineCount = 0
    /\ sink \in IF output = "file" THEN {<<>>, <<"a", NL>>} ELSE {<<>>}
    /\ stdout = <<>>
    /\ plRet = NoRet
    /\ lineChanClosed = FALSE
    /\ errBuf = <<>>
    /\ errChanClosed = FALSE

PLIdle ==
    /\ output = ""
    /\ writeFailAt = 0
    /\ plPc = "idle"
    /\ plLineCount = 0
    /\ sink = <<>>
    /\ stdout = <<>>
    /\ plRet = NoRet
    /\ lineChanClosed = FALSE
    /\ errBuf = <<>>
    /\ errChanClosed = FALSE

\* ------------------------------------------------------- MockLineReceiver
LineVals == {<<>>, <<"a">>, <<"b">>}
MockLineLists == UNION {[1..n -> LineVals] : n \in 0..MaxMockLines}

MockInit ==
    /\ mLines \in MockLineLists
    /\ mErr \in {"nil", "EOF", "testErr"}
    /\ mPc = "idle"
    /\ mIdx = 1

MockIdle ==
    /\ mLines = <<>>
    /\ mErr = "nil"
    /\ mPc = "idle"
    /\ mIdx = 1

\* lineChan, errChan := receiver.ReceiveLines(): the mock starts its goroutine
PLReceiveMock ==
    /\ plPc = "receive"
    /\ plPc' = "loop"
    /\ mPc' = "lines"
    /\ UNCHANGED <<output, writeFailAt, plLineCount, sink, stdout, plRet,
                   chVars, mLines, mErr, mIdx, sfVars, srvVars, cliVars, srcVars, sigVars>>

\* lineChan <- line meets case line, ok := <-lineChan (lineChan is unbuffered)
MockSendLine ==
    /\ mPc = "lines"
    /\ mIdx <= Len(mLines)
    /\ plPc = "loop"
    /\ PLOnLine(mLines[mIdx])
    /\ mIdx' = mIdx + 1
    /\ UNCHANGED <<mLines, mErr, mPc, chVars, sfVars, srvVars, cliVars, srcVars, sigVars>>

\* if m.Err != nil { errChan <- m.Err }
MockSendErr ==
    /\ mPc = "lines"
    /\ mIdx > Len(mLines)
    /\ errBuf' = IF mErr # "nil" THEN Append(errBuf, mErr) ELSE errBuf
    /\ mPc' = "closeErr"
    /\ UNCHANGED <<mLines, mErr, mIdx, lineChanClosed, errChanClosed, plVars, sfVars, srvVars, cliVars, srcVars, sigVars>>

\* defer close(errChan): deferred last, so it runs first
MockCloseErr ==
    /\ mPc = "closeErr"
    /\ errChanClosed' = TRUE
    /\ mPc' = "closeLine"
    /\ UNCHANGED <<mLines, mErr, mIdx, lineChanClosed, errBuf, plVars, sfVars, srvVars, cliVars, srcVars, sigVars>>

\* defer close(lineChan)
MockCloseLine ==
    /\ mPc = "closeLine"
    /\ lineChanClosed' = TRUE
    /\ mPc' = "done"
    /\ UNCHANGED <<mLines, mErr, mIdx, errBuf, errChanClosed, plVars, sfVars, srvVars, cliVars, srcVars, sigVars>>

PLCreate == PLCreateStep /\ UNCHANGED <<chVars, notPl>>
PLLineClosed == PLLineClosedStep /\ UNCHANGED notPl
PLRecvErr == PLRecvErrStep /\ UNCHANGED notPl
PLErrClosed == PLErrClosedStep /\ UNCHANGED notPl

\* ------------------------------------------------- TestSimpleFileTransfer
\* channelLineReceiver.ReceiveLines returns the two channels it was given
PLReceiveChan ==
    /\ plPc = "receive"
    /\ plPc' = "loop"
    /\ UNCHANGED <<output, writeFailAt, plLineCount, sink, stdout, plRet,
                   chVars, mVars, sfVars, srvVars, cliVars, srcVars, sigVars>>

\* channelWriter.SendText: w.linesChan <- text meets ProcessLines' line case
ChanSendText ==
    /\ sfPc = "send"
    /\ plPc = "loop"
    /\ PLOnLine(line)
    /\ sfTrace' = Append(sfTrace, <<"send", line, TRUE>>)
    /\ sfPc' = "sleep"
    /\ UNCHANGED <<file, openErr, failAt, fault, delayMs, pos, line, sfLineCount, wLines,
                   sfRet, chVars, mVars, srvVars, cliVars, srcVars, sigVars>>

\* the streaming goroutine after StreamFile returned:
\* if err != nil { errChan <- err }, then the deferred close(linesChan)
StreamerEnd ==
    /\ sfPc = "returned"
    /\ sfPc' = "closed"
    /\ errBuf' = IF sfRet # "nil" THEN Append(errBuf, sfRet) ELSE errBuf
    /\ lineChanClosed' = TRUE
    /\ UNCHANGED <<file, openErr, failAt, fault, delayMs, pos, line, sfLineCount, wLines,
                   sfTrace, sfRet, errChanClosed, plVars, mVars, srvVars, cliVars, srcVars, sigVars>>

TransferPLInit ==
    /\ PLInit
    /\ output \in {"", "file"}
    /\ writeFailAt = 0

\* ------------------------------------- a LineReceiver of any behaviour
\* ProcessLines takes any LineReceiver.  This one hands out an unbuffered
\* lineChan and an errChan of capacity 1, as the receivers of the tests do,
\* and its goroutine sends lines and errors and closes the channels in any
\* order Go allows (no send on a closed channel, no second close).
notSrc == <<sfVars, mVars, srvVars, cliVars, sigVars>>

SrcOps == Len(srcLog) + Len(srcOffer)

SrcIdle ==
    /\ srcOffer = <<>>
    /\ srcLog = <<>>

\* lineChan <- l: the goroutine blocks until ProcessLines takes the line
SrcOfferLine ==
    /\ srcOffer = <<>>
    /\ ~lineChanClosed
    /\ SrcOps < MaxSrcOps
    /\ \E l \in LineVals : srcOffer' = <<l>>
    /\ UNCHANGED <<srcLog, plVars, chVars, notSrc>>

\* lineChan <- l meets case line, ok := <-lineChan
SrcDeliver ==
    /\ srcOffer # <<>>
    /\ plPc = "loop"
    /\ PLOnLine(srcOffer[1])
    /\ srcOffer' = <<>>
    /\ srcLog' = Append(srcLog, <<"line", srcOffer[1]>>)
    /\ UNCHANGED <<chVars, notSrc>>

\* errChan <- e: the buffer takes it
SrcSendErr ==
    /\ srcOffer = <<>>
    /\ ~errChanClosed
    /\ errBuf = <<>>
    /\ SrcOps < MaxSrcOps
    /\ \E e \in {"EOF", "testErr"} :
         /\ errBuf' = <<e>>
         /\ srcLog' = Append(srcLog, <<"err", e>>)
    /\ UNCHANGED <<srcOffer, lineChanClosed, errChanClosed, plVars, notSrc>>

\* close(errChan)
SrcCloseErr ==
    /\ srcOffer = <<>>
    /\ ~errChanClosed
    /\ SrcOps < MaxSrcOps
    /\ errChanClosed' = TRUE
    /\ srcLog' = Append(srcLog, <<"closeErr">>)
    /\ UNCHANGED <<srcOffer, lineChanClosed, errBuf, plVars, notSrc>>

\* close(lineChan)
SrcCloseLine ==
    /\ srcOffer = <<>>
    /\ ~lineChanClosed
    /\ SrcOps < MaxSrcOps
    /\ lineChanClosed' = TRUE
    /\ srcLog' = Append(srcLog, <<"closeLine">>)
    /\ UNCHANGED <<srcOffer, errBuf, errChanClosed, plVars, notSrc>>

\* -------------------------------------------------------------- runServer
notSrv == <<sfVars, plVars, chVars, mVars, cliVars, srcVars, sigVars>>

Req == 1..NumReq
ServerFiles == {<<>>, <<"a", NL, "a">>}

NoReq == [pc |-> "none", method |-> "none", body |-> "none",
          steps |-> <<>>, status |-> 0, delivered |-> FALSE,
          peerConnection |-> "none", dataChannel |-> "none", onOpen |-> FALSE,
          opened |-> FALSE, registered |-> 0]
\* calls is history: the lines passed to SendText, in order
NoSess == [pc |-> "none", pos |-> 0, line |-> <<>>, sent |-> <<>>, calls |-> <<>>,
           end |-> "none"]

SrvInit ==
    /\ srvFile \in ServerFiles
    /\ srvPc = "start"
    /\ listener = "none"
    /\ shutdown = FALSE
    /\ wg = 0
    /\ req = [r \in Req |-> NoReq]
    /\ sess = [r \in Req |-> NoSess]
    /\ inFlight = [r \in Req |-> -1]
    /\ pidAt = "none"
    /\ srvExit = -1

SrvIdle ==
    /\ srvFile = <<>>
    /\ srvPc = "idle"
    /\ listener = "none"
    /\ shutdown = FALSE
    /\ wg = 0
    /\ req = [r \in Req |-> NoReq]
    /\ sess = [r \in Req |-> NoSess]
    /\ inFlight = [r \in Req |-> -1]
    /\ pidAt = "none"
    /\ srvExit = -1

\* the server process has not exited
Alive == srvPc # "exited"

\* a session whose goroutine was started and has not called wg.Done()
Streaming(r) == sess[r].pc \notin {"none", "done", "killed"}

\* if _, err := os.Stat(filename); os.IsNotExist(err) { os.Exit(1) }
SrvNoFile ==
    /\ srvPc = "start"
    /\ srvPc' = "exited"
    /\ srvExit' = 1
    /\ UNCHANGED <<notSrv, srvFile, listener, shutdown, wg, req, sess, inFlight, pidAt>>

\* go func() { server.ListenAndServe() }()
SrvListen ==
    /\ srvPc = "start"
    /\ srvPc' = "pid"
    /\ listener' = "starting"
    /\ UNCHANGED <<notSrv, srvFile, shutdown, wg, req, sess, inFlight, pidAt, srvExit>>

\* fmt.Printf("SERVER_PID=%d\n", os.Getpid())
SrvPrintPid ==
    /\ srvPc = "pid"
    /\ srvPc' = "await"
    /\ pidAt' = listener
    /\ UNCHANGED <<notSrv, srvFile, listener, shutdown, wg, req, sess, inFlight, srvExit>>

\* ListenAndServe binds the address and accepts
ListenerUp ==
    /\ listener = "starting"
    /\ listener' = "up"
    /\ UNCHANGED <<notSrv, srvFile, srvPc, shutdown, wg, req, sess, inFlight, pidAt, srvExit>>

\* ListenAndServe returns an error other than http.ErrServerClosed
ListenerFails ==
    /\ listener = "starting"
    /\ listener' = "failed"
    /\ UNCHANGED <<notSrv, srvFile, srvPc, shutdown, wg, req, sess, inFlight, pidAt, srvExit>>

\* os.Interrupt or SIGTERM is delivered to the shutdown channel
Signal ==
    /\ Alive
    /\ ~shutdown
    /\ shutdown' = TRUE
    /\ inFlight' = [r \in DOMAIN sess |-> IF Streaming(r) THEN Len(sess[r].sent) ELSE -1]
    /\ UNCHANGED <<notSrv, srvFile, srvPc, listener, wg, req, sess, pidAt, srvExit>>

\* a shutdown that also closes every data channel and stops its sender
SrvShutdownHard ==
    /\ srvPc = "await"
    /\ shutdown
    /\ srvPc' = "waiting"
    /\ listener' = IF listener = "failed" THEN "failed" ELSE "closed"
    /\ req' = [r \in DOMAIN sess |-> IF Streaming(r) THEN [req[r] EXCEPT !.dataChannel = "closed"]
                             ELSE req[r]]
    /\ sess' = [r \in DOMAIN sess |-> IF Streaming(r) /\ sess[r].pc # "unregister"
                              THEN [sess[r] EXCEPT !.pc = "unregister", !.end = "killed"]
                              ELSE sess[r]]
    /\ UNCHANGED <<notSrv, srvFile, shutdown, wg, inFlight, pidAt, srvExit>>

\* a shutdown that leaves the listener accepting
SrvShutdownKeepsListening ==
    /\ srvPc = "await"
    /\ shutdown
    /\ srvPc' = "waiting"
    /\ UNCHANGED <<notSrv, srvFile, listener, shutdown, wg, req, sess, inFlight, pidAt, srvExit>>

\* <-shutdown; server.Close()
SrvShutdown ==
    /\ srvPc = "await"
    /\ shutdown
    /\ srvPc' = "waiting"
    /\ listener' = IF listener = "failed" THEN "failed" ELSE "closed"
    /\ UNCHANGED <<notSrv, srvFile, shutdown, wg, req, sess, inFlight, pidAt, srvExit>>

\* a drain that does not wait
WaitReturnsAtOnce == TRUE

\* a drain that never ends
WaitNever == FALSE

\* wg.Wait() may return
WaitReturns == wg = 0

\* wg.Wait()
SrvWait ==
    /\ srvPc = "waiting"
    /\ WaitReturns
    /\ srvPc' = "waited"
    /\ UNCHANGED <<notSrv, srvFile, listener, shutdown, wg, req, sess, inFlight, pidAt, srvExit>>

\* logger.Info("Server shutdown complete")
SrvComplete ==
    /\ srvPc = "waited"
    /\ srvPc' = "complete"
    /\ UNCHANGED <<notSrv, srvFile, listener, shutdown, wg, req, sess, inFlight, pidAt, srvExit>>

\* runServer returns and the process ends, and every goroutine with it; the
\* status is that of a main that returned
SrvExit ==
    /\ srvPc = "complete"
    /\ srvPc' = "exited"
    /\ srvExit' = 0
    /\ sess' = [r \in DOMAIN sess |-> IF Streaming(r)
                              THEN [sess[r] EXCEPT !.pc = "killed", !.end = "killed"]
                              ELSE sess[r]]
    /\ UNCHANGED <<notSrv, srvFile, listener, shutdown, wg, req, inFlight, pidAt>>

\* ------------------------------------------------------- the /offer handler
\* a handler that closes the peer connection it constructed before it
\* returns an error
RespondReleasing(r, code, step) ==
    [req[r] EXCEPT !.pc = "done", !.status = code,
                   !.delivered = (listener = "up"),
                   !.steps = Append(@, step),
                   !.peerConnection = IF @ = "new" /\ code = 500 THEN "closed" ELSE @]

\* the handler writes a response: it reaches the client unless server.Close()
\* has closed the connection
Respond(r, code, step) ==
    [req[r] EXCEPT !.pc = "done", !.status = code,
                   !.delivered = (listener = "up"),
                   !.steps = Append(@, step)]

HandlerStep(r, at) ==
    /\ Alive
    /\ req[r].pc = at
    /\ UNCHANGED <<notSrv, srvFile, srvPc, listener, shutdown, wg, sess, inFlight, pidAt, srvExit>>

\* the listener accepts a request and starts its handler
Accept(r) ==
    /\ Alive
    /\ listener = "up"
    /\ req[r].pc = "none"
    /\ r > 1 => req[r - 1].pc # "none"
    /\ req' = [req EXCEPT ![r].pc = "method"]
    /\ UNCHANGED <<notSrv, srvFile, srvPc, listener, shutdown, wg, sess, inFlight, pidAt, srvExit>>

Methods == {"POST", "GET", "PUT"}
Bodies == {"offer", "unreadable", "malformed"}

\* a handler that serves every method
MethodAny(m) == TRUE

\* r.Method == http.MethodPost
MethodAllowed(m) == m = "POST"

\* a handler that answers a wrong method as it answers a malformed body
MethodErrorAsBadRequest(m) == 400

\* http.Error(w, "Method not allowed", http.StatusMethodNotAllowed)
MethodErrorStatus(m) == 405

\* if r.Method != http.MethodPost { http.Error(..., 405); return }
HMethod(r) ==
    /\ HandlerStep(r, "method")
    /\ \E m \in Methods :
         req' = [req EXCEPT ![r] =
                   IF ~MethodAllowed(m)
                     THEN [Respond(r, MethodErrorStatus(m), "MethodNotAllowed")
                             EXCEPT !.method = m]
                     ELSE [req[r] EXCEPT !.pc = "parse", !.method = m]]

\* a handler that takes any body for an offer
OfferParsesAny(b) == TRUE

\* io.ReadAll(r.Body) and json.Unmarshal(offerBytes, &offer) both succeed
OfferParses(b) == b = "offer"

\* io.ReadAll(r.Body); json.Unmarshal(offerBytes, &offer)
HParse(r) ==
    /\ HandlerStep(r, "parse")
    /\ \E body \in Bodies :
         req' = [req EXCEPT ![r] =
                   IF ~OfferParses(body)
                     THEN [Respond(r, 400, "BadRequest") EXCEPT !.body = body]
                     ELSE [req[r] EXCEPT !.pc = "newpc", !.body = body]]

\* api.NewPeerConnection(config)
HNewPeerConnection(r) ==
    /\ HandlerStep(r, "newpc")
    /\ \E ok \in BOOLEAN :
         req' = [req EXCEPT ![r] =
                   IF ~ok THEN Respond(r, 500, "NewPeerConnectionFailed")
                   ELSE [req[r] EXCEPT !.pc = "setremote", !.peerConnection = "new",
                                       !.steps = Append(@, "NewPeerConnection")]]

\* peerConnection.SetRemoteDescription(offer)
HSetRemoteDescription(r) ==
    /\ HandlerStep(r, "setremote")
    /\ \E ok \in BOOLEAN :
         req' = [req EXCEPT ![r] =
                   IF ~ok THEN Respond(r, 500, "SetRemoteDescriptionFailed")
                   ELSE [req[r] EXCEPT !.pc = "createdc",
                                       !.steps = Append(@, "SetRemoteDescription")]]

\* a handler that creates the channel and installs no OnOpen callback
HCreateDataChannelNoCallback(r) ==
    /\ HandlerStep(r, "createdc")
    /\ \E ok \in BOOLEAN :
         req' = [req EXCEPT ![r] =
                   IF ~ok THEN Respond(r, 500, "CreateDataChannelFailed")
                   ELSE [req[r] EXCEPT !.pc = "createanswer",
                                       !.dataChannel = "connecting",
                                       !.steps = Append(@, "CreateDataChannel")]]

\* peerConnection.CreateDataChannel("fileStream", nil); dataChannel.OnOpen(...)
HCreateDataChannel(r) ==
    /\ HandlerStep(r, "createdc")
    /\ \E ok \in BOOLEAN :
         req' = [req EXCEPT ![r] =
                   IF ~ok THEN Respond(r, 500, "CreateDataChannelFailed")
                   ELSE [req[r] EXCEPT !.pc = "createanswer",
                                       !.dataChannel = "connecting", !.onOpen = TRUE,
                                       !.steps = @ \o <<"CreateDataChannel", "OnOpen">>]]

\* a handler that logs a failed CreateAnswer and carries on
HCreateAnswerCarriesOn(r) ==
    /\ HandlerStep(r, "createanswer")
    /\ \E ok \in BOOLEAN :
         req' = [req EXCEPT ![r] =
                   [req[r] EXCEPT !.pc = "setlocal",
                                  !.steps = Append(@, IF ok THEN "CreateAnswer"
                                                      ELSE "CreateAnswerFailed")]]

\* peerConnection.CreateAnswer(nil)
HCreateAnswer(r) ==
    /\ HandlerStep(r, "createanswer")
    /\ \E ok \in BOOLEAN :
         req' = [req EXCEPT ![r] =
                   IF ~ok THEN Respond(r, 500, "CreateAnswerFailed")
                   ELSE [req[r] EXCEPT !.pc = "setlocal",
                                       !.steps = Append(@, "CreateAnswer")]]

\* a handler that answers without waiting for the gathering to complete
AfterSetLocalNoWait == "write"

\* where the handler goes after SetLocalDescription succeeded
AfterSetLocal == "gather"

\* peerConnection.SetLocalDescription(answer)
HSetLocalDescription(r) ==
    /\ HandlerStep(r, "setlocal")
    /\ \E ok \in BOOLEAN :
         req' = [req EXCEPT ![r] =
                   IF ~ok THEN Respond(r, 500, "SetLocalDescriptionFailed")
                   ELSE [req[r] EXCEPT !.pc = AfterSetLocal,
                                       !.steps = Append(@, "SetLocalDescription")]]

\* a handler that gives up waiting for the gathering and answers 500
HGatheringTimesOut(r) ==
    /\ HandlerStep(r, "gather")
    /\ \/ req' = [req EXCEPT ![r].pc = "write", ![r].steps = Append(@, "GatheringComplete")]
       \/ req' = [req EXCEPT ![r] = Respond(r, 500, "GatheringTimeout")]

\* <-webrtc.GatheringCompletePromise(peerConnection)
HGatheringComplete(r) ==
    /\ HandlerStep(r, "gather")
    /\ req' = [req EXCEPT ![r].pc = "write", ![r].steps = Append(@, "GatheringComplete")]

\* answer = *peerConnection.LocalDescription(); json.NewEncoder(w).Encode(answer)
HWriteAnswer(r) ==
    /\ HandlerStep(r, "write")
    /\ req' = [req EXCEPT ![r] = Respond(r, 200, "Encode")]

\* ----------------------------------------------- dataChannel.OnOpen, streamFile
\* the callback run twice for one open event
OnOpenTwice(r) ==
    /\ wg' = wg + 2
    /\ req' = [req EXCEPT ![r].dataChannel = "open", ![r].opened = TRUE,
                          ![r].registered = @ + 2]
    /\ sess' = [sess EXCEPT ![r].pc = "open"]

\* dataChannel.OnOpen(func() { wg.Add(1); go func() { ... streamFile(...) }() })
OnOpen(r) ==
    /\ wg' = wg + 1
    /\ req' = [req EXCEPT ![r].dataChannel = "open", ![r].opened = TRUE,
                          ![r].registered = @ + 1]
    /\ sess' = [sess EXCEPT ![r].pc = "open"]

\* the transport reports the channel open: the client applied the answer
DataChannelOpens(r) ==
    /\ Alive
    /\ req[r].dataChannel = "connecting"
    /\ req[r].status = 200 /\ req[r].delivered
    /\ IF req[r].onOpen
         THEN OnOpen(r)
         ELSE /\ req' = [req EXCEPT ![r].dataChannel = "open", ![r].opened = TRUE]
              /\ UNCHANGED <<wg, sess>>
    /\ UNCHANGED <<notSrv, srvFile, srvPc, listener, shutdown, inFlight, pidAt, srvExit>>

SessionStep(r, at) ==
    /\ Alive
    /\ sess[r].pc = at
    /\ UNCHANGED <<notSrv, srvFile, srvPc, listener, shutdown, inFlight, pidAt, srvExit>>

\* file, err := os.Open(filename)
SessOpen(r) ==
    /\ SessionStep(r, "open")
    /\ \E ok \in BOOLEAN :
         sess' = [sess EXCEPT ![r] =
                    IF ok THEN [sess[r] EXCEPT !.pc = "scan", !.pos = 1]
                    ELSE [sess[r] EXCEPT !.pc = "close", !.end = "openErr"]]
    /\ UNCHANGED <<wg, req>>

\* for scanner.Scan() { line := scanner.Text() ... }
SessScan(r) ==
    /\ SessionStep(r, "scan")
    /\ sess' = [sess EXCEPT ![r] =
                  IF ScanHasToken(srvFile, sess[r].pos)
                    THEN [sess[r] EXCEPT !.pc = "send",
                                         !.line = ScanToken(srvFile, sess[r].pos),
                                         !.pos = ScanAdvance(srvFile, sess[r].pos)]
                    ELSE [sess[r] EXCEPT !.pc = "close", !.end = "exhausted"]]
    /\ UNCHANGED <<wg, req>>

\* a sender whose failure stops every session
SessSendFailureStopsAll(r) ==
    /\ SessionStep(r, "send")
    /\ \E ok \in BOOLEAN :
         sess' = IF ok
                   THEN [sess EXCEPT ![r] = [sess[r] EXCEPT !.pc = "sleep",
                                                            !.sent = Append(@, sess[r].line),
                                                            !.calls = Append(@, sess[r].line)]]
                   ELSE [q \in DOMAIN sess |->
                           IF Streaming(q) /\ sess[q].pc # "unregister"
                             THEN [sess[q] EXCEPT !.pc = "close", !.end = "sendErr"]
                             ELSE sess[q]]
    /\ UNCHANGED <<wg, req>>

\* a sender that tries a line a second time when the first try fails
SessSendRetries(r) ==
    /\ SessionStep(r, "send")
    /\ \E ok \in BOOLEAN :
         sess' = [sess EXCEPT ![r] =
                    IF ok THEN [sess[r] EXCEPT !.pc = "sleep", !.sent = Append(@, sess[r].line),
                                               !.calls = Append(@, sess[r].line)]
                    ELSE IF Len(sess[r].calls) = Len(sess[r].sent)
                           THEN [sess[r] EXCEPT !.calls = Append(@, sess[r].line)]
                           ELSE [sess[r] EXCEPT !.pc = "close", !.end = "sendErr",
                                                !.calls = Append(@, sess[r].line)]]
    /\ UNCHANGED <<wg, req>>

\* if err := dataChannel.SendText(line); err != nil { return }; a panic in
\* SendText is recovered by streamFile's deferred function, which returns
SessSend(r) ==
    /\ SessionStep(r, "send")
    /\ \E res \in {"ok", "sendErr", "panic"} :
         sess' = [sess EXCEPT ![r] =
                    IF res = "ok"
                      THEN [sess[r] EXCEPT !.pc = "sleep", !.sent = Append(@, sess[r].line),
                                           !.calls = Append(@, sess[r].line)]
                      ELSE [sess[r] EXCEPT !.pc = "close", !.end = res,
                                           !.calls = Append(@, sess[r].line)]]
    /\ UNCHANGED <<wg, req>>

\* time.Sleep(time.Duration(delayMs) * time.Millisecond)
SessSleep(r) ==
    /\ SessionStep(r, "sleep")
    /\ sess' = [sess EXCEPT ![r].pc = "scan"]
    /\ UNCHANGED <<wg, req>>

\* a session goroutine that returns without closing its channel
SessCloseSkipped(r) ==
    /\ SessionStep(r, "close")
    /\ sess' = [sess EXCEPT ![r].pc = "unregister"]
    /\ UNCHANGED <<wg, req>>

\* defer dataChannel.Close()
SessClose(r) ==
    /\ SessionStep(r, "close")
    /\ sess' = [sess EXCEPT ![r].pc = "unregister"]
    /\ req' = [req EXCEPT ![r].dataChannel = "closed"]
    /\ UNCHANGED wg

\* a session goroutine that calls wg.Done() twice
SessDoneTwice(r) ==
    /\ SessionStep(r, "unregister")
    /\ sess' = [sess EXCEPT ![r].pc = "done"]
    /\ wg' = wg - 2
    /\ UNCHANGED req

\* defer wg.Done()
SessDone(r) ==
    /\ SessionStep(r, "unregister")
    /\ sess' = [sess EXCEPT ![r].pc = "done"]
    /\ wg' = wg - 1
    /\ UNCHANGED req

SrvMain ==
    \/ SrvNoFile \/ SrvListen \/ SrvPrintPid \/ ListenerUp \/ ListenerFails \/ Signal
    \/ SrvShutdown \/ SrvWait \/ SrvComplete \/ SrvExit

Handler(r) ==
    \/ Accept(r) \/ HMethod(r) \/ HParse(r) \/ HNewPeerConnection(r)
    \/ HSetRemoteDescription(r) \/ HCreateDataChannel(r) \/ HCreateAnswer(r)
    \/ HSetLocalDescription(r) \/ HGatheringComplete(r) \/ HWriteAnswer(r)

Session(r) ==
    \/ DataChannelOpens(r) \/ SessOpen(r) \/ SessScan(r) \/ SessSend(r)
    \/ SessSleep(r) \/ SessClose(r) \/ SessDone(r)

\* -------------------------------------------------------------- runClient
notCli == <<sfVars, plVars, chVars, mVars, srvVars, srcVars, sigVars>>

NoResp == [status |-> 0, body |-> "none"]

\* what the server at serverURL may answer to the POST: any status, with a
\* body that is an answer, JSON that is no answer, or no JSON at all
Responses ==
    [status : {200, 400, 405, 500}, body : {"answer", "empty", "garbage"}]

CliInit ==
    /\ cPc = "newpc"
    /\ cSteps = <<>>
    /\ cResp = NoResp
    /\ cExit = -1
    /\ cShutdown = FALSE
    /\ wire \in MockLineLists
    /\ channel = "none"
    /\ dataChan = <<>>
    /\ dataChanClosed = FALSE
    /\ rxPc = "none"
    /\ rxCount = 0
    /\ cOut = <<>>

CliIdle ==
    /\ cPc = "idle"
    /\ cSteps = <<>>
    /\ cResp = NoResp
    /\ cExit = -1
    /\ cShutdown = FALSE
    /\ wire = <<>>
    /\ channel = "none"
    /\ dataChan = <<>>
    /\ dataChanClosed = FALSE
    /\ rxPc = "none"
    /\ rxCount = 0
    /\ cOut = <<>>

CliAlive == cExit = -1

\* one call of the negotiation: it succeeds and runClient goes on to `next`,
\* or it fails and runClient logs the error and calls os.Exit(1)
CliCall(at, step, next) ==
    /\ CliAlive
    /\ cPc = at
    /\ cSteps' = Append(cSteps, step)
    /\ \E ok \in BOOLEAN :
         IF ok THEN cPc' = next /\ cExit' = cExit
         ELSE cPc' = "exited" /\ cExit' = 1
    /\ UNCHANGED <<notCli, cResp, cShutdown, wire, channel, dataChan, dataChanClosed,
                   rxPc, rxCount, cOut>>

\* api.NewPeerConnection(config)
CNewPeerConnection == CliCall("newpc", "NewPeerConnection", "createdc")

\* peerConnection.CreateDataChannel("initChannel", nil); peerConnection.OnDataChannel(...)
CCreateDataChannel == CliCall("createdc", "CreateDataChannel", "offer")

\* peerConnection.CreateOffer(nil)
CCreateOffer == CliCall("offer", "CreateOffer", "setlocal")

\* peerConnection.SetLocalDescription(offer)
CSetLocalDescription == CliCall("setlocal", "SetLocalDescription", "gather")

\* <-webrtc.GatheringCompletePromise(peerConnection); offer = *peerConnection.LocalDescription()
CGatheringComplete ==
    /\ CliAlive
    /\ cPc = "gather"
    /\ cPc' = "post"
    /\ cSteps' = Append(cSteps, "GatheringComplete")
    /\ UNCHANGED <<notCli, cResp, cExit, cShutdown, wire, channel, dataChan,
                   dataChanClosed, rxPc, rxCount, cOut>>

\* resp, err := http.Post(serverURL, "application/json", offerJSON)
CPost ==
    /\ CliAlive
    /\ cPc = "post"
    /\ cSteps' = Append(cSteps, "Post")
    /\ \/ \E resp \in Responses : cResp' = resp /\ cPc' = "status" /\ cExit' = cExit
       \/ cResp' = cResp /\ cPc' = "exited" /\ cExit' = 1
    /\ UNCHANGED <<notCli, cShutdown, wire, channel, dataChan, dataChanClosed,
                   rxPc, rxCount, cOut>>

\* a client that takes any response for an answer
StatusAny(code) == TRUE

\* resp.StatusCode == http.StatusOK
StatusOK(code) == code = 200

\* a client whose parser takes any body
ParsesAny(body) == TRUE

\* json.Unmarshal(answerJSON, &answer) succeeds
Parses(body) == body \in {"answer", "empty"}

\* peerConnection.SetRemoteDescription accepts the description
Accepted(body) == body = "answer"

\* if resp.StatusCode != http.StatusOK { os.Exit(1) }; io.ReadAll; json.Unmarshal
CReadAnswer ==
    /\ CliAlive
    /\ cPc = "status"
    /\ \E readOk \in BOOLEAN :
         IF StatusOK(cResp.status) /\ readOk /\ Parses(cResp.body)
           THEN cPc' = "setremote" /\ cExit' = cExit
           ELSE cPc' = "exited" /\ cExit' = 1
    /\ UNCHANGED <<notCli, cSteps, cResp, cShutdown, wire, channel, dataChan,
                   dataChanClosed, rxPc, rxCount, cOut>>

\* peerConnection.SetRemoteDescription(answer)
CSetRemoteDescription ==
    /\ CliAlive
    /\ cPc = "setremote"
    /\ cSteps' = Append(cSteps, "SetRemoteDescription")
    /\ IF Accepted(cResp.body)
         THEN cPc' = "pid" /\ cExit' = cExit
         ELSE cPc' = "exited" /\ cExit' = 1
    /\ UNCHANGED <<notCli, cResp, cShutdown, wire, channel, dataChan, dataChanClosed,
                   rxPc, rxCount, cOut>>

\* fmt.Printf("CLIENT_PID=%d\n", os.Getpid()); signal.Notify(shutdown, ...)
CPrintPid ==
    /\ CliAlive
    /\ cPc = "pid"
    /\ cPc' = "output"
    /\ cSteps' = Append(cSteps, "PrintPid")
    /\ UNCHANGED <<notCli, cResp, cExit, cShutdown, wire, channel, dataChan,
                   dataChanClosed, rxPc, rxCount, cOut>>

\* os.Create(output) when output != ""; go func() { for line := range dataChan ... }()
CStartReceiving ==
    /\ CliAlive
    /\ cPc = "output"
    /\ \E ok \in BOOLEAN :
         IF ok THEN cPc' = "await" /\ rxPc' = "range" /\ cExit' = cExit
         ELSE cPc' = "exited" /\ rxPc' = rxPc /\ cExit' = 1
    /\ UNCHANGED <<notCli, cSteps, cResp, cShutdown, wire, channel, dataChan,
                   dataChanClosed, rxCount, cOut>>

\* os.Interrupt or SIGTERM is delivered to the client's shutdown channel
CSignal ==
    /\ CliAlive
    /\ cPc \in {"output", "await"}
    /\ ~cShutdown
    /\ cShutdown' = TRUE
    /\ UNCHANGED <<notCli, cPc, cSteps, cResp, cExit, wire, channel, dataChan,
                   dataChanClosed, rxPc, rxCount, cOut>>

\* a shutdown path that closes dataChan itself
CCloseClosesChan ==
    /\ CliAlive
    /\ cPc = "await"
    /\ cShutdown
    /\ cPc' = "complete"
    /\ cSteps' = Append(cSteps, "Close")
    /\ channel' = IF channel = "open" THEN "closing" ELSE channel
    /\ dataChanClosed' = TRUE
    /\ UNCHANGED <<notCli, cResp, cExit, cShutdown, wire, dataChan,
                   rxPc, rxCount, cOut>>

\* <-shutdown; peerConnection.Close()
CClose ==
    /\ CliAlive
    /\ cPc = "await"
    /\ cShutdown
    /\ cPc' = "complete"
    /\ cSteps' = Append(cSteps, "Close")
    /\ channel' = IF channel = "open" THEN "closing" ELSE channel
    /\ UNCHANGED <<notCli, cResp, cExit, cShutdown, wire, dataChan, dataChanClosed,
                   rxPc, rxCount, cOut>>

\* logger.Info("Client shutdown complete"); runClient returns and the process ends
CExit ==
    /\ CliAlive
    /\ cPc = "complete"
    /\ cPc' = "exited"
    /\ cExit' = 0
    /\ UNCHANGED <<notCli, cSteps, cResp, cShutdown, wire, channel, dataChan,
                   dataChanClosed, rxPc, rxCount, cOut>>

\* the transport reports the server's data channel: OnDataChannel installs
\* OnOpen, OnMessage and OnClose on it
ChannelOpens ==
    /\ CliAlive
    /\ cPc \in {"pid", "output", "await"}
    /\ channel = "none"
    /\ channel' = "open"
    /\ UNCHANGED <<notCli, cPc, cSteps, cResp, cExit, cShutdown, wire, dataChan,
                   dataChanClosed, rxPc, rxCount, cOut>>

\* d.OnMessage(func(msg) { dataChan <- string(msg.Data) }): the callback starts
\* and offers the message on dataChan
OnMessage ==
    /\ CliAlive
    /\ channel = "open"
    /\ wire # <<>>
    /\ dataChan = <<>>
    /\ wire' = Tail(wire)
    /\ IF dataChanClosed
         THEN cPc' = "exited" /\ cExit' = 2 /\ dataChan' = dataChan
         ELSE cPc' = cPc /\ cExit' = cExit /\ dataChan' = <<Head(wire)>>
    /\ UNCHANGED <<notCli, cSteps, cResp, cShutdown, channel,
                   dataChanClosed, rxPc, rxCount, cOut>>

\* for line := range dataChan { lineCount++; fmt.Fprintln(outputFile, line) }
RxLine ==
    /\ CliAlive
    /\ rxPc = "range"
    /\ dataChan # <<>>
    /\ rxCount' = rxCount + 1
    /\ cOut' = Append(cOut, dataChan[1])
    /\ dataChan' = <<>>
    /\ UNCHANGED <<notCli, cPc, cSteps, cResp, cExit, cShutdown, wire, channel,
                   dataChanClosed, rxPc>>

\* the server closed the channel after its last message
RemoteClose ==
    /\ CliAlive
    /\ channel = "open"
    /\ wire = <<>>
    /\ channel' = "closing"
    /\ UNCHANGED <<notCli, cPc, cSteps, cResp, cExit, cShutdown, wire, dataChan,
                   dataChanClosed, rxPc, rxCount, cOut>>

\* a close callback that only logs
OnCloseOnlyLogs ==
    /\ CliAlive
    /\ channel = "closing"
    /\ dataChan = <<>>
    /\ channel' = "closed"
    /\ UNCHANGED <<notCli, cPc, cSteps, cResp, cExit, cShutdown, wire, dataChan,
                   dataChanClosed, rxPc, rxCount, cOut>>

\* d.OnClose(func() { close(dataChan) }): the transport runs it once the
\* channel is closed and the last OnMessage callback has returned
\* closing a closed channel panics, and the panic ends the process with 2
OnClose ==
    /\ CliAlive
    /\ channel = "closing"
    /\ dataChan = <<>>
    /\ channel' = "closed"
    /\ IF dataChanClosed
         THEN cPc' = "exited" /\ cExit' = 2 /\ dataChanClosed' = dataChanClosed
         ELSE cPc' = cPc /\ cExit' = cExit /\ dataChanClosed' = TRUE
    /\ UNCHANGED <<notCli, cSteps, cResp, cShutdown, wire, dataChan,
                   rxPc, rxCount, cOut>>

\* range dataChan ends: logger.Info("Received %d lines ...")
RxEnd ==
    /\ CliAlive
    /\ rxPc = "range"
    /\ dataChanClosed
    /\ dataChan = <<>>
    /\ rxPc' = "done"
    /\ UNCHANGED <<notCli, cPc, cSteps, cResp, cExit, cShutdown, wire, channel,
                   dataChan, dataChanClosed, rxCount, cOut>>

\* ------------------------------------------------- the signaling exchange
\* A SessionDescription is a type and an SDP text.  The client marshals its
\* finalized offer with json.Marshal and POSTs the bytes; the handler reads
\* them and unmarshals; the handler encodes its finalized answer with
\* json.Encoder.Encode and the client reads and unmarshals it.  Texts are
\* sequences of one-character strings, and the encoder and the decoder are
\* written out as encoding/json and SDPType's (Un)MarshalJSON work on them.
notSig == <<sfVars, plVars, chVars, mVars, srvVars, cliVars, srcVars>>

\* characters an SDP text is made of here: a letter, the two characters JSON
\* escapes with a backslash, a line end, and one that Go escapes as <
SdpChars == {"n", "\"", "\\", NL, "<"}

SdpTexts == UNION {[1..n -> SdpChars] : n \in 0..MaxSdpLen}

SDPTypes == {"SDPTypeOffer", "SDPTypePranswer", "SDPTypeAnswer", "SDPTypeRollback"}

NoDesc == [type |-> "none", sdp |-> <<>>]

\* the zero value of webrtc.SessionDescription
ZeroDesc == [type |-> "Unknown", sdp |-> <<>>]

\* SDPType.String()
TypeString(t) ==
    CASE t = "SDPTypeOffer" -> <<"o", "f", "f", "e", "r">>
      [] t = "SDPTypePranswer" -> <<"p", "r", "a", "n", "s", "w", "e", "r">>
      [] t = "SDPTypeAnswer" -> <<"a", "n", "s", "w", "e", "r">>
      [] t = "SDPTypeRollback" -> <<"r", "o", "l", "l", "b", "a", "c", "k">>
      [] OTHER -> <<"U", "n", "k", "n", "o", "w", "n">>

\* SDPType.UnmarshalJSON: the type a name stands for, "Unknown" when none
NewSDPType(name) ==
    IF \E t \in SDPTypes : TypeString(t) = name
    THEN CHOOSE t \in SDPTypes : TypeString(t) = name
    ELSE "Unknown"

\* a mutant of EscapeChar: the character goes out as it is
EscapeNone(c) == <<c>>

\* encoding/json, how a character of a string is written
EscapeChar(c) ==
    CASE c = "\"" -> <<"\\", "\"">>
      [] c = "\\" -> <<"\\", "\\">>
      [] c = NL -> <<"\\", "n">>
      [] c = CR -> <<"\\", "r">>
      [] c = "<" -> <<"\\", "u", "0", "0", "3", "c">>
      [] OTHER -> <<c>>

RECURSIVE EscapeAll(_)
EscapeAll(str) ==
    IF str = <<>> THEN <<>> ELSE EscapeChar(Head(str)) \o EscapeAll(Tail(str))

\* encoding/json, a string value
Quote(str) == <<"\"">> \o EscapeAll(str) \o <<"\"">>

\* json.Marshal(SessionDescription): {"type":"...","sdp":"..."}
Marshal(d) ==
    <<"{">> \o Quote(<<"t", "y", "p", "e">>) \o <<":">> \o Quote(TypeString(d.type))
        \o <<",">> \o Quote(<<"s", "d", "p">>) \o <<":">> \o Quote(d.sdp) \o <<"}">>

\* json.NewEncoder(w).Encode(answer): the value and a newline
Encode(d) == Marshal(d) \o <<NL>>

StrErr == [ok |-> FALSE, val |-> <<>>, next |-> 0]

\* encoding/json, reading a string value whose opening quote is before p
RECURSIVE Unquote(_, _, _)
Unquote(t, p, acc) ==
    IF p > Len(t) THEN StrErr
    ELSE IF t[p] = "\"" THEN [ok |-> TRUE, val |-> acc, next |-> p + 1]
    ELSE IF t[p] \in {NL, CR} THEN StrErr
    ELSE IF t[p] # "\\" THEN Unquote(t, p + 1, Append(acc, t[p]))
    ELSE IF p + 1 > Len(t) THEN StrErr
    ELSE IF t[p + 1] \in {"\"", "\\"} THEN Unquote(t, p + 2, Append(acc, t[p + 1]))
    ELSE IF t[p + 1] = "n" THEN Unquote(t, p + 2, Append(acc, NL))
    ELSE IF t[p + 1] = "r" THEN Unquote(t, p + 2, Append(acc, CR))
    ELSE IF t[p + 1] = "u" /\ p + 5 <= Len(t)
            /\ SubSeq(t, p + 2, p + 5) = <<"0", "0", "3", "c">>
         THEN Unquote(t, p + 6, Append(acc, "<"))
    ELSE StrErr

DescErr == [ok |-> FALSE, val |-> ZeroDesc]

\* json.Unmarshal into a SessionDescription, a member at a time: a "type"
\* member goes through SDPType.UnmarshalJSON, an "sdp" member is the text,
\* any other member is skipped; after the closing brace only white space
SetMember(d, key, val) ==
    IF key = <<"t", "y", "p", "e">> THEN [d EXCEPT !.type = NewSDPType(val)]
    ELSE IF key = <<"s", "d", "p">> THEN [d EXCEPT !.sdp = val]
    ELSE d

RECURSIVE Members(_, _, _)
Members(t, p, d) ==
    IF p > Len(t) \/ t[p] # "\"" THEN DescErr
    ELSE LET k == Unquote(t, p + 1, <<>>) IN
         IF ~k.ok \/ k.next + 1 > Len(t) \/ t[k.next] # ":" \/ t[k.next + 1] # "\""
         THEN DescErr
         ELSE LET v == Unquote(t, k.next + 2, <<>>) IN
              IF ~v.ok \/ v.next > Len(t) THEN DescErr
              ELSE IF k.val = <<"t", "y", "p", "e">> /\ NewSDPType(v.val) = "Unknown"
                   THEN DescErr
              ELSE IF t[v.next] = "," THEN Members(t, v.next + 1, SetMember(d, k.val, v.val))
              ELSE IF t[v.next] = "}"
                      /\ \A i \in (v.next + 1)..Len(t) : t[i] \in {NL, CR, " "}
                   THEN [ok |-> TRUE, val |-> SetMember(d, k.val, v.val)]
              ELSE DescErr

Unmarshal(t) ==
    IF Len(t) >= 1 /\ t[1] = "{" THEN Members(t, 2, ZeroDesc) ELSE DescErr

SigIdle ==
    /\ sgPc = "idle"
    /\ cOffer = NoDesc /\ offerJSON = <<>> /\ sOffer = NoDesc
    /\ sAnswer = NoDesc /\ answerJSON = <<>> /\ cAnswer = NoDesc

\* the client has its finalized offer
SigInit ==
    /\ sgPc = "marshal"
    /\ \E sdp \in SdpTexts : cOffer = [type |-> "SDPTypeOffer", sdp |-> sdp]
    /\ offerJSON = <<>> /\ sOffer = NoDesc
    /\ sAnswer = NoDesc /\ answerJSON = <<>> /\ cAnswer = NoDesc

\* offerJSON, err := json.Marshal(offer)
SigMarshalOffer ==
    /\ sgPc = "marshal"
    /\ offerJSON' = Marshal(cOffer)
    /\ sgPc' = "post"
    /\ UNCHANGED <<cOffer, sOffer, sAnswer, answerJSON, cAnswer, notSig>>

\* http.Post carries the bytes; the handler reads them all and unmarshals:
\* 400 when that fails, else the offer goes to SetRemoteDescription
SigUnmarshalOffer ==
    /\ sgPc = "post"
    /\ LET offerBytes == offerJSON
           res == Unmarshal(offerBytes) IN
       IF res.ok THEN sOffer' = res.val /\ sgPc' = "answer"
       ELSE sOffer' = sOffer /\ sgPc' = "badRequest"
    /\ UNCHANGED <<cOffer, offerJSON, sAnswer, answerJSON, cAnswer, notSig>>

\* answer = *peerConnection.LocalDescription() after gathering
SigFinalAnswer ==
    /\ sgPc = "answer"
    /\ \E sdp \in SdpTexts : sAnswer' = [type |-> "SDPTypeAnswer", sdp |-> sdp]
    /\ sgPc' = "encode"
    /\ UNCHANGED <<cOffer, offerJSON, sOffer, answerJSON, cAnswer, notSig>>

\* json.NewEncoder(w).Encode(answer); the client reads the whole body
SigEncodeAnswer ==
    /\ sgPc = "encode"
    /\ answerJSON' = Encode(sAnswer)
    /\ sgPc' = "parse"
    /\ UNCHANGED <<cOffer, offerJSON, sOffer, sAnswer, cAnswer, notSig>>

\* json.Unmarshal(answerJSON, &answer): exit 1 when that fails, else the
\* answer goes to SetRemoteDescription
SigUnmarshalAnswer ==
    /\ sgPc = "parse"
    /\ LET res == Unmarshal(answerJSON) IN
       IF res.ok THEN cAnswer' = res.val /\ sgPc' = "applied"
       ELSE cAnswer' = cAnswer /\ sgPc' = "exit"
    /\ UNCHANGED <<cOffer, offerJSON, sOffer, sAnswer, answerJSON, notSig>>

\* ---------------------------------------------------------- specifications
\* StreamFile with a MockLineWriter
StreamInit == SFInit /\ PLIdle /\ MockIdle /\ SrvIdle /\ CliIdle /\ SrcIdle /\ SigIdle
StreamNext == SFOpen \/ SFScan \/ SFSendText \/ SFSleep
SpecStream == StreamInit /\ [][StreamNext]_vars

\* ProcessLines with a MockLineReceiver
ProcessInit == SFIdle /\ PLInit /\ MockInit /\ SrvIdle /\ CliIdle /\ SrcIdle /\ SigIdle
ProcessNext ==
    \/ PLCreate \/ PLReceiveMock \/ PLLineClosed \/ PLRecvErr \/ PLErrClosed
    \/ MockSendLine \/ MockSendErr \/ MockCloseErr \/ MockCloseLine
SpecProcess == ProcessInit /\ [][ProcessNext]_vars

\* StreamFile feeding ProcessLines through a channel, as TestSimpleFileTransfer
TransferInit == SFInit /\ failAt = 0 /\ TransferPLInit /\ MockIdle /\ SrvIdle /\ CliIdle /\ SrcIdle /\ SigIdle
TransferNext ==
    \/ SFOpen \/ SFScan \/ ChanSendText \/ SFSleep \/ StreamerEnd
    \/ PLCreate \/ PLReceiveChan \/ PLLineClosed \/ PLRecvErr
SpecTransfer == TransferInit /\ [][TransferNext]_vars

\* runServer: the listener, the /offer handlers, the stream sessions, the drain
ServerInit == SFIdle /\ PLIdle /\ MockIdle /\ SrvInit /\ CliIdle /\ SrcIdle /\ SigIdle
ServerNext == SrvMain \/ (\E r \in Req : Handler(r) \/ Session(r))
SpecServer == ServerInit /\ [][ServerNext]_vars

\* the server with several answered offers whose data channels are about to
\* open: the sessions side by side, and the shutdown
Sess == 1..NumSess

\* a request as the handler leaves it after a delivered answer
AnsweredReq ==
    [NoReq EXCEPT !.pc = "done", !.method = "POST", !.body = "offer",
                  !.steps = <<"NewPeerConnection", "SetRemoteDescription",
                              "CreateDataChannel", "OnOpen", "CreateAnswer",
                              "SetLocalDescription", "GatheringComplete", "Encode">>,
                  !.status = 200, !.delivered = TRUE, !.peerConnection = "new",
                  !.dataChannel = "connecting", !.onOpen = TRUE]

SessionsInit ==
    /\ SFIdle /\ PLIdle /\ MockIdle /\ CliIdle /\ SrcIdle /\ SigIdle
    /\ srvFile \in ServerFiles
    /\ srvPc = "await"
    /\ listener = "up"
    /\ shutdown = FALSE
    /\ wg = 0
    /\ req = [r \in Sess |-> AnsweredReq]
    /\ sess = [r \in Sess |-> NoSess]
    /\ inFlight = [r \in Sess |-> -1]
    /\ pidAt = "up"
    /\ srvExit = -1
SessionsNext ==
    \/ Signal \/ SrvShutdown \/ SrvWait \/ SrvComplete \/ SrvExit
    \/ \E r \in Sess : Session(r)
SpecSessions == SessionsInit /\ [][SessionsNext]_vars

\* the same when every goroutine that can run does run: runServer's main
\* goroutine, and each session goroutine, whose file is finite and whose
\* SendText and Sleep calls return
ServerFairness ==
    /\ WF_vars(SrvPrintPid) /\ WF_vars(SrvShutdown) /\ WF_vars(SrvWait)
    /\ WF_vars(SrvComplete)
    /\ \A r \in Req :
         /\ WF_vars(SessOpen(r)) /\ WF_vars(SessScan(r)) /\ WF_vars(SessSend(r))
         /\ WF_vars(SessSleep(r)) /\ WF_vars(SessClose(r)) /\ WF_vars(SessDone(r))
SpecServerFair == SpecServer /\ ServerFairness

\* the server when every handler goroutine runs whenever it can and every
\* gathering completes
HandshakeFairness ==
    \A r \in Req :
        /\ WF_vars(HMethod(r)) /\ WF_vars(HParse(r)) /\ WF_vars(HNewPeerConnection(r))
        /\ WF_vars(HSetRemoteDescription(r)) /\ WF_vars(HCreateDataChannel(r))
        /\ WF_vars(HCreateAnswer(r)) /\ WF_vars(HSetLocalDescription(r))
        /\ WF_vars(HGatheringComplete(r)) /\ WF_vars(HWriteAnswer(r))
SpecHandshakeFair == SpecServer /\ HandshakeFairness

\* runClient: the handshake, the receiving goroutine, the shutdown
ClientInit == SFIdle /\ PLIdle /\ MockIdle /\ SrvIdle /\ CliInit /\ SrcIdle /\ SigIdle
ClientNext ==
    \/ CNewPeerConnection \/ CCreateDataChannel \/ CCreateOffer
    \/ CSetLocalDescription \/ CGatheringComplete \/ CPost \/ CReadAnswer
    \/ CSetRemoteDescription \/ CPrintPid \/ CStartReceiving \/ CSignal
    \/ CClose \/ CExit \/ ChannelOpens \/ OnMessage \/ RxLine \/ RemoteClose
    \/ OnClose \/ RxEnd
SpecClient == ClientInit /\ [][ClientNext]_vars

\* the same when every goroutine that can run does run: runClient's main
\* goroutine up to <-shutdown, and the receiving goroutine
ClientFairness ==
    /\ WF_vars(CPrintPid) /\ WF_vars(CStartReceiving)
    /\ WF_vars(RxLine) /\ WF_vars(RxEnd)
SpecClientFair == SpecClient /\ ClientFairness

\* one server session and the client it streams to, joined by the transport:
\* the handshake is done, the answer delivered and applied
PairInit ==
    /\ SFIdle /\ PLIdle /\ MockIdle /\ SrcIdle /\ SigIdle
    /\ srvFile \in ServerFiles
    /\ srvPc = "await"
    /\ listener = "up"
    /\ shutdown = FALSE
    /\ wg = 0
    /\ req = [r \in {1} |-> AnsweredReq]
    /\ sess = [r \in {1} |-> NoSess]
    /\ inFlight = [r \in {1} |-> -1]
    /\ pidAt = "up"
    /\ srvExit = -1
    /\ cPc = "pid"
    /\ cSteps = <<"NewPeerConnection", "CreateDataChannel", "CreateOffer",
                  "SetLocalDescription", "GatheringComplete", "Post",
                  "SetRemoteDescription">>
    /\ cResp = [status |-> 200, body |-> "answer"]
    /\ cExit = -1
    /\ cShutdown = FALSE
    /\ wire = <<>>
    /\ channel = "none"
    /\ dataChan = <<>>
    /\ dataChanClosed = FALSE
    /\ rxPc = "none"
    /\ rxCount = 0
    /\ cOut = <<>>

\* the messages the transport has handed to the client's OnMessage so far
Handed == rxCount + Len(dataChan)

\* the transport delivers in order and without loss: the next message handed
\* to OnMessage is the next line the session sent
PairOnMessage ==
    /\ CliAlive
    /\ channel = "open"
    /\ dataChan = <<>>
    /\ Handed < Len(sess[1].sent)
    /\ dataChan' = <<sess[1].sent[Handed + 1]>>
    /\ UNCHANGED <<notCli, cPc, cSteps, cResp, cExit, cShutdown, wire, channel,
                   dataChanClosed, rxPc, rxCount, cOut>>

\* the close of the server's channel reaches the client after every message
\* sent before it
PairRemoteClose ==
    /\ CliAlive
    /\ channel = "open"
    /\ req[1].dataChannel = "closed"
    /\ Handed = Len(sess[1].sent)
    /\ channel' = "closing"
    /\ UNCHANGED <<notCli, cPc, cSteps, cResp, cExit, cShutdown, wire, dataChan,
                   dataChanClosed, rxPc, rxCount, cOut>>

PairNext ==
    \/ Session(1)
    \/ CPrintPid \/ CStartReceiving \/ CSignal \/ CClose \/ CExit
    \/ ChannelOpens \/ PairOnMessage \/ RxLine \/ PairRemoteClose \/ OnClose \/ RxEnd
SpecPair == PairInit /\ [][PairNext]_vars

\* the same when the session goroutine, the transport and the client's
\* goroutines run whenever they can
PairFairness ==
    /\ WF_vars(SessOpen(1)) /\ WF_vars(SessScan(1)) /\ WF_vars(SessSend(1))
    /\ WF_vars(SessSleep(1)) /\ WF_vars(SessClose(1)) /\ WF_vars(SessDone(1))
    /\ WF_vars(ChannelOpens) /\ WF_vars(PairOnMessage) /\ WF_vars(PairRemoteClose)
    /\ WF_vars(OnClose)
    /\ ClientFairness
SpecPairFair == SpecPair /\ PairFairness

\* one client and the server it negotiates with: the client's POST is the
\* request the handler takes, the handler's response is the response the
\* client reads, and the session the handler registered streams to it
ExchangeInit ==
    /\ SFIdle /\ PLIdle /\ MockIdle /\ SrcIdle /\ SigIdle
    /\ srvFile \in ServerFiles
    /\ srvPc = "await"
    /\ listener = "up"
    /\ shutdown = FALSE
    /\ wg = 0
    /\ req = [r \in {1} |-> NoReq]
    /\ sess = [r \in {1} |-> NoSess]
    /\ inFlight = [r \in {1} |-> -1]
    /\ pidAt = "up"
    /\ srvExit = -1
    /\ CliInit
    /\ wire = <<>>

\* resp, err := http.Post(serverURL, ...): the request reaches the handler, or
\* the POST fails and the client exits with 1
ExPost ==
    /\ CliAlive
    /\ cPc = "post"
    /\ cSteps' = Append(cSteps, "Post")
    /\ \/ /\ listener = "up" /\ req[1].pc = "none"
          /\ req' = [req EXCEPT ![1].pc = "method"]
          /\ cPc' = "posted" /\ cExit' = cExit
       \/ /\ req' = req
          /\ cPc' = "exited" /\ cExit' = 1
    /\ UNCHANGED <<sfVars, plVars, chVars, mVars, srcVars, sigVars, srvFile, srvPc,
                   listener, shutdown, wg, sess, inFlight, pidAt, srvExit, cResp,
                   cShutdown, wire, channel, dataChan, dataChanClosed, rxPc, rxCount,
                   cOut>>

\* the handler sees the method of http.Post
ExMethod == HMethod(1) /\ req'[1].method = "POST"

\* the handler reads the marshalled offer, or fails to read the body
ExParse == HParse(1) /\ req'[1].body \in {"offer", "unreadable"}

\* http.Post returns with the handler's response: the encoded answer with
\* 200, the text of http.Error otherwise
ExResponse ==
    /\ CliAlive
    /\ cPc = "posted"
    /\ req[1].pc = "done"
    /\ cResp' = [status |-> req[1].status,
                 body |-> IF req[1].status = 200 THEN "answer" ELSE "garbage"]
    /\ cPc' = "status"
    /\ UNCHANGED <<notCli, cSteps, cExit, cShutdown, wire, channel, dataChan,
                   dataChanClosed, rxPc, rxCount, cOut>>

\* the server's channel opens once the client has applied the answer
ExDataChannelOpens ==
    /\ cPc \in {"pid", "output", "await"}
    /\ DataChannelOpens(1)

ExchangeNext ==
    \/ CNewPeerConnection \/ CCreateDataChannel \/ CCreateOffer
    \/ CSetLocalDescription \/ CGatheringComplete \/ ExPost
    \/ ExMethod \/ ExParse \/ HNewPeerConnection(1) \/ HSetRemoteDescription(1)
    \/ HCreateDataChannel(1) \/ HCreateAnswer(1) \/ HSetLocalDescription(1)
    \/ HGatheringComplete(1) \/ HWriteAnswer(1) \/ ExResponse
    \/ CReadAnswer \/ CSetRemoteDescription \/ CPrintPid \/ CStartReceiving
    \/ CSignal \/ CClose \/ CExit
    \/ ExDataChannelOpens \/ SessOpen(1) \/ SessScan(1) \/ SessSend(1)
    \/ SessSleep(1) \/ SessClose(1) \/ SessDone(1)
    \/ ChannelOpens \/ PairOnMessage \/ RxLine \/ PairRemoteClose \/ OnClose \/ RxEnd
SpecExchange == ExchangeInit /\ [][ExchangeNext]_vars

\* ProcessLines reading from a LineReceiver of any behaviour
SourceInit == SFIdle /\ TransferPLInit /\ MockIdle /\ SrvIdle /\ CliIdle /\ SrcIdle /\ SigIdle
SourceNext ==
    \/ PLCreate \/ PLReceiveChan \/ PLLineClosed \/ PLRecvErr \/ PLErrClosed
    \/ SrcOfferLine \/ SrcDeliver \/ SrcSendErr \/ SrcCloseErr \/ SrcCloseLine
SpecSource == SourceInit /\ [][SourceNext]_vars

\* the same under Go's scheduling: a goroutine that can run does run, and a
\* select with a ready case takes one, choosing evenly among several
SourceFairness ==
    /\ WF_vars(PLCreate) /\ WF_vars(PLReceiveChan)
    /\ WF_vars(PLLineClosed) /\ WF_vars(PLRecvErr) /\ WF_vars(SrcDeliver)
SpecSourceFair == SpecSource /\ SourceFairness

\* the signaling exchange, from the client's finalized offer on
SignalInit == SFIdle /\ PLIdle /\ MockIdle /\ SrvIdle /\ CliIdle /\ SrcIdle /\ SigInit

SignalNext ==
    \/ SigMarshalOffer \/ SigUnmarshalOffer \/ SigFinalAnswer
    \/ SigEncodeAnswer \/ SigUnmarshalAnswer

SpecSignal == SignalInit /\ [][SignalNext]_vars

\* ------------------------------------------------- what the claims refer to
EndsCR(l) == l # <<>> /\ l[Len(l)] = CR
HasPrefix(f, p) == Len(p) <= Len(f) /\ SubSeq(f, 1, Len(p)) = p
Drop(f, n) == SubSeq(f, n + 1, Len(f))

RECURSIVE IsLinesOf(_, _)
\* L is the list of lines of text f: f is the lines of L in order, each ended
\* by "\n" or "\r\n", the last one possibly not ended at all
IsLinesOf(L, f) ==
    IF L = <<>> THEN f = <<>>
    ELSE LET l == Head(L) IN
         /\ \A i \in 1..Len(l) : l[i] # NL
         /\ \/ HasPrefix(f, l \o <<CR, NL>>) /\ IsLinesOf(Tail(L), Drop(f, Len(l) + 2))
            \/ ~EndsCR(l) /\ HasPrefix(f, l \o <<NL>>) /\ IsLinesOf(Tail(L), Drop(f, Len(l) + 1))
            \/ Tail(L) = <<>> /\ f = l \o <<CR>>
            \/ Tail(L) = <<>> /\ f = l /\ f # <<>> /\ ~EndsCR(l)

\* L is the list of the first lines of f
IsFirstLinesOf(L, f) ==
    \E c \in 0..Len(f) :
        /\ c = 0 \/ c = Len(f) \/ f[c] = NL
        /\ IsLinesOf(L, SubSeq(f, 1, c))

\* the texts passed to SendText, in call order
CallLines ==
    LET sends == SelectSeq(sfTrace, LAMBDA e : e[1] = "send")
    IN  [i \in 1..Len(sends) |-> sends[i][2]]

IsFailedSend(e) == e[1] = "send" /\ e[3] = FALSE

\* the lines of L, each followed by one newline
FramedAll(L) == Splice([i \in 1..Len(L) |-> L[i] \o <<NL>>])

\* what ProcessLines wrote: the output file, or standard output
Written == IF output = "" THEN stdout ELSE sink

Registered == {r \in Req : req[r].registered > 0}

NaturalEnds == {"none", "exhausted", "sendErr", "openErr", "panic"}

C5_InFlightRunsOn ==
    \A r \in Req : inFlight[r] >= 0 =>
        /\ sess[r].end \in NaturalEnds
        /\ IsFirstLinesOf(sess[r].sent, srvFile)
        /\ sess[r].end = "exhausted" => IsLinesOf(sess[r].sent, srvFile)

C5_ShutdownPathStep == srvPc' # srvPc /\ srvPc' \in {"waiting", "waited", "complete"}

\* C5: a stream session in flight when the shutdown signal arrives keeps
\* sending the remaining lines in file order and ends only by exhausting the
\* file or by a failure of its own; no step of the shutdown path changes a
\* session or a data channel.
C5_ShutdownDoesNotPreempt ==
    /\ []C5_InFlightRunsOn
    /\ [][C5_ShutdownPathStep => UNCHANGED <<sess, req>>]_vars

C5_Witness ==
    /\ srvPc = "complete"
    /\ \E r \in Req : /\ inFlight[r] = 0
                      /\ sess[r].end = "exhausted"
                      /\ Len(sess[r].sent) = 2

\* the answering side's steps, in the order the claim gives
AnswerOrder == <<"SetRemoteDescription", "CreateDataChannel", "CreateAnswer",
                 "SetLocalDescription", "GatheringComplete", "Encode">>
Rank(step) == CHOOSE i \in 1..Len(AnswerOrder) : AnswerOrder[i] = step
IsOrdered(step) == \E i \in 1..Len(AnswerOrder) : AnswerOrder[i] = step
Before(st, a, j) == \E i \in 1..(j - 1) : st[i] = a

\* C6: in every execution of the /offer handler the steps occur in the order
\* apply the offer, create the data channel, create the answer, set the local
\* description, gathering complete, write the response; the answer is never
\* written before gathering completed nor created before the offer was applied.
C6_AnswerOrder ==
    \A r \in Req :
        LET st == req[r].steps IN
        /\ \A i, j \in 1..Len(st) :
             (i < j /\ IsOrdered(st[i]) /\ IsOrdered(st[j])) => Rank(st[i]) < Rank(st[j])
        /\ \A j \in 1..Len(st) :
             /\ st[j] = "Encode" => Before(st, "GatheringComplete", j)
             /\ st[j] = "CreateAnswer" => Before(st, "SetRemoteDescription", j)
        /\ req[r].status = 200 => SelectSeq(st, IsOrdered) = AnswerOrder

C6_Witness == \E r \in Req : req[r].status = 200 /\ req[r].delivered

\* the positions in st at which step a was made
Places(st, a) == {i \in 1..Len(st) : st[i] = a}

\* C7: the client POSTs its offer only after create offer, set local
\* description and gathering complete, in that order; it applies a remote
\* description only after a 200 response whose body parses as a session
\* description, and at most once.
C7_OfferOrder ==
    /\ \A j \in Places(cSteps, "Post") :
         \E a, b, c \in 1..(j - 1) :
             /\ a < b /\ b < c
             /\ cSteps[a] = "CreateOffer"
             /\ cSteps[b] = "SetLocalDescription"
             /\ cSteps[c] = "GatheringComplete"
    /\ \A j \in Places(cSteps, "SetRemoteDescription") :
         /\ Before(cSteps, "Post", j)
         /\ cResp.status = 200
         /\ Parses(cResp.body)
    /\ Cardinality(Places(cSteps, "SetRemoteDescription")) <= 1
    /\ Cardinality(Places(cSteps, "Post")) <= 1

C7_Witness ==
    /\ cPc = "pid"
    /\ Places(cSteps, "SetRemoteDescription") # {}
    /\ cResp = [status |-> 200, body |-> "answer"]

\* C8: an answered offer gets exactly one stream session, registered and
\* started by the channel's open event and not before; none without it.
C8_OneSessionPerOpen ==
    /\ \A r \in Req :
         /\ req[r].registered = (IF req[r].opened THEN 1 ELSE 0)
         /\ (sess[r].pc # "none") = req[r].opened
         /\ req[r].opened => (req[r].status = 200 /\ req[r].delivered)
    /\ wg = Cardinality({r \in Registered : sess[r].pc # "done"})

C8_Witness ==
    \E r \in Req : req[r].status = 200 /\ req[r].dataChannel = "open"
                   /\ req[r].registered = 1 /\ sess[r].pc = "send"

C10_SendErrorStopsStream ==
    \A i \in 1..Len(sfTrace) :
        IsFailedSend(sfTrace[i]) =>
            /\ i = Len(sfTrace)
            /\ sfPc = "returned" /\ sfRet = "sendErr"
            /\ SendCalls = failAt
            /\ wLines = SubSeq(CallLines, 1, SendCalls - 1)
            /\ IsFirstLinesOf(CallLines, file)

C10_Witness ==
    /\ sfPc = "returned" /\ sfRet = "sendErr"
    /\ SendCalls = 2 /\ Len(wLines) = 1
    /\ IsFailedSend(sfTrace[Len(sfTrace)])

\* the SendText call of the run that panicked, if any
Panicked == \E i \in 1..Len(sfTrace) : sfTrace[i][1] = "panic"

\* C11: when the file cannot be opened StreamFile returns the open error; it
\* never calls SendText and leaves the writer as it was.
C11_OpenErrorLeavesWriter ==
    openErr =>
        /\ sfPc \in {"open", "returned"}
        /\ sfTrace = <<>> /\ wLines = <<>>
        /\ sfPc = "returned" => sfRet = "openErr"

C11_Witness == openErr /\ sfPc = "returned" /\ sfRet = "openErr" /\ file # <<>>

\* C12: when SendText panics StreamFile returns to its caller (the panic is
\* recovered) and the value it returns is a non-nil error.
C12_PanicSurfaced ==
    Panicked => sfPc = "returned" /\ sfRet \notin {"nil", "none"}

\* the lines the source has delivered, in order
SrcLines(log) ==
    LET d == SelectSeq(log, LAMBDA e : e[1] = "line")
    IN  [i \in 1..Len(d) |-> d[i][2]]

\* the step in which ProcessLines takes a value from the error stream
ErrReceived == plPc = "loop" /\ plPc' = "returned" /\ errBuf # <<>> /\ errBuf' = <<>>

\* C13: on receiving an error other than io.EOF ProcessLines returns at once
\* with that error and the count so far; what it wrote stays, and nothing is
\* consumed or written afterwards although the source may still offer lines.
C13_ErrorStopsAtOnce ==
    [][/\ (ErrReceived /\ Head(errBuf) # "EOF") =>
            /\ plRet' = [count |-> plLineCount, elapsed |-> "since", err |-> Head(errBuf)]
            /\ UNCHANGED <<plLineCount, sink, stdout>>
       /\ plPc = "returned" =>
            /\ UNCHANGED plVars
            /\ SrcLines(srcLog') = SrcLines(srcLog)]_vars

C13_Witness ==
    /\ plPc = "returned" /\ plRet.err = "testErr" /\ plRet.count = 1
    /\ output = "file" /\ sink = <<"a", NL>>
    /\ srcOffer # <<>>

\* the source delivered lines only and then did `last`
LinesThen(last) ==
    /\ srcLog # <<>>
    /\ srcLog[Len(srcLog)] = last
    /\ \A i \in 1..(Len(srcLog) - 1) : srcLog[i][1] = "line"

\* C14: M lines followed by io.EOF on the error stream give the same result
\* as M lines followed by the close of the line stream, (M, nil) and the M
\* lines written; io.EOF is never returned as the error.
C14_EofIsCleanEnd ==
    /\ plRet.err # "EOF"
    /\ \A last \in {<<"err", "EOF">>, <<"closeLine">>} :
         (plPc = "returned" /\ LinesThen(last)) =>
             /\ plRet.count = Len(srcLog) - 1
             /\ plRet.err = "nil"
             /\ Written = FramedAll(SrcLines(srcLog))

C14_Witness ==
    /\ plPc = "returned" /\ LinesThen(<<"err", "EOF">>)
    /\ plRet.count = 2 /\ ~lineChanClosed

NoErrSent == \A i \in 1..Len(srcLog) : srcLog[i][1] # "err"

\* C15: when the error stream is closed without an error having been sent,
\* ProcessLines returns only once the line stream is closed, with nil and
\* every delivered line counted and written; a line offered after the close
\* is taken.
C15_ErrCloseIsNoEnd ==
    /\ []((errChanClosed /\ NoErrSent /\ plPc = "returned") =>
            /\ lineChanClosed
            /\ plRet.err = "nil"
            /\ plRet.count = Len(SrcLines(srcLog))
            /\ Written = FramedAll(SrcLines(srcLog)))
    /\ (errChanClosed /\ NoErrSent /\ srcOffer # <<>>) ~> (srcOffer = <<>>)

C15_Witness ==
    /\ plPc = "returned" /\ plRet.count = 1
    /\ srcLog = << <<"closeErr">>, <<"line", <<"a">> >>, <<"closeLine">> >>

\* C16: an error put on the error stream while the line stream is open and
\* idle makes ProcessLines return; a line offered while the error stream is
\* open and empty is taken.
C16_NoSerialBlocking ==
    /\ (errBuf # <<>> /\ ~lineChanClosed /\ srcOffer = <<>>) ~> (plPc = "returned")
    /\ (srcOffer # <<>> /\ ~errChanClosed /\ errBuf = <<>> /\ plPc # "returned")
           ~> (srcOffer = <<>>)

C16_Witness ==
    /\ plPc = "returned" /\ plRet.err = "testErr" /\ plRet.count = 0
    /\ srcLog = << <<"err", "testErr">> >> /\ ~lineChanClosed /\ srcOffer = <<>>

\* C17: when the output cannot be created ProcessLines returns (0, 0, error),
\* never calls ReceiveLines and takes no line from the source.
C17_CreateErrorEndsRun ==
    output = "dir" =>
        /\ plPc \in {"create", "returned"}
        /\ mPc = "idle" /\ mIdx = 1
        /\ plLineCount = 0 /\ sink = <<>> /\ stdout = <<>>
        /\ plPc = "returned" =>
               plRet = [count |-> 0, elapsed |-> "zero", err |-> "createErr"]

C17_Witness ==
    /\ output = "dir" /\ plPc = "returned" /\ plRet.err = "createErr"
    /\ Len(mLines) = 2

\* the lines ProcessLines has taken from the mock's line stream
Taken == SubSeq(mLines, 1, mIdx - 1)

\* C18: the line count never decreases and grows by one with each line taken;
\* while no write has failed the output file holds exactly the lines taken, in
\* order, each followed by one newline.
C18_CountAndSinkTrackLines ==
    /\ [](plLineCount = Len(Taken))
    /\ [][\/ plLineCount' = plLineCount /\ mIdx' = mIdx
          \/ plLineCount' = plLineCount + 1 /\ mIdx' = mIdx + 1]_vars
    /\ []((output = "file" /\ plPc \in {"receive", "loop", "returned"}
              /\ plRet.err # "writeErr")
            => sink = FramedAll(Taken))

C18_Witness ==
    /\ output = "file" /\ plPc = "loop" /\ plLineCount = 2
    /\ mLines = << <<"a">>, <<"b">> >>
    /\ sink = <<"a", NL, "b", NL>>

\* C19: a request whose method is not POST is answered 405 and nothing else
\* happens for it: no peer connection, no data channel, no OnOpen handler, and
\* no stream session is ever registered.
C19_WrongMethodNoEffect ==
    \A r \in Req :
        req[r].method \notin {"none", "POST"} =>
            /\ req[r].pc = "done" /\ req[r].status = 405
            /\ req[r].steps = <<"MethodNotAllowed">>
            /\ req[r].peerConnection = "none" /\ req[r].dataChannel = "none"
            /\ ~req[r].onOpen /\ ~req[r].opened /\ req[r].registered = 0
            /\ sess[r] = NoSess

C19_Witness ==
    \E r \in Req : req[r].method = "GET" /\ req[r].status = 405 /\ req[r].delivered

\* the handler's steps that fail a negotiation
NegotiationFailures ==
    {"NewPeerConnectionFailed", "SetRemoteDescriptionFailed", "CreateDataChannelFailed",
     "CreateAnswerFailed", "SetLocalDescriptionFailed"}

\* the last step of a finished handler
LastStep(r) == req[r].steps[Len(req[r].steps)]

\* C20 as the code has it: 200 with the answer on success, 400 on a body that
\* cannot be read or parsed, 405 on a method other than POST, 500 with the
\* error text on a negotiation failure; no other status.
C20_StatusMapping ==
    \A r \in Req :
        req[r].pc = "done" =>
            /\ req[r].status \in {200, 400, 405, 500}
            /\ req[r].status = 405 <=> req[r].method # "POST"
            /\ req[r].status = 400 <=>
                  (req[r].method = "POST" /\ req[r].body \in {"unreadable", "malformed"})
            /\ req[r].status = 500 <=> LastStep(r) \in NegotiationFailures
            /\ req[r].status = 200 <=> LastStep(r) = "Encode"

C20_Witness ==
    \E r \in Req : req[r].pc = "done" /\ req[r].status = 500
                    /\ LastStep(r) = "SetLocalDescriptionFailed"

\* C20 as stated: a wrong method is answered 400, and 200, 400 and 500 are
\* the only statuses.
C20_AsStated ==
    \A r \in Req :
        req[r].pc = "done" =>
            /\ req[r].status \in {200, 400, 500}
            /\ req[r].method # "POST" => req[r].status = 400

\* C21: a POST whose body cannot be read or parsed as a session description
\* is answered 400 and no peer connection or data channel is built for it.
C21_BadBodyNoChannel ==
    \A r \in Req :
        (req[r].method = "POST" /\ req[r].body \in {"unreadable", "malformed"}) =>
            /\ req[r].pc = "done" /\ req[r].status = 400
            /\ req[r].steps = <<"BadRequest">>
            /\ req[r].peerConnection = "none" /\ req[r].dataChannel = "none"
            /\ ~req[r].onOpen /\ sess[r] = NoSess

C21_Witness ==
    \E r \in Req : req[r].body = "malformed" /\ req[r].status = 400 /\ req[r].delivered

\* the handler's steps after parsing, in program order, and how each fails
HandlerOrder == <<"NewPeerConnection", "SetRemoteDescription", "CreateDataChannel",
                  "OnOpen", "CreateAnswer", "SetLocalDescription",
                  "GatheringComplete", "Encode">>
FailureAfter == [k \in 0..5 |->
                   <<"NewPeerConnectionFailed", "SetRemoteDescriptionFailed",
                     "CreateDataChannelFailed", "none", "CreateAnswerFailed",
                     "SetLocalDescriptionFailed">>[k + 1]]

\* request r ran into a failure at some step after parsing
Failed(r) == \E i \in 1..Len(req[r].steps) : req[r].steps[i] \in NegotiationFailures

\* C22: when a step after parsing fails the handler answers 500 and stops: the
\* failure is its last step, the steps before it are the ones that precede it
\* in program order, no answer is written, and the request never changes again.
C22_FailureEndsHandler ==
    /\ [](\A r \in Req :
            Failed(r) =>
               /\ req[r].pc = "done" /\ req[r].status = 500
               /\ \E k \in 0..5 :
                     req[r].steps = SubSeq(HandlerOrder, 1, k) \o <<FailureAfter[k]>>)
    /\ [][\A r \in Req : Failed(r) => req'[r] = req[r] /\ sess'[r] = sess[r]]_vars

C22_Witness ==
    \E r \in Req :
        /\ req[r].status = 500 /\ req[r].delivered
        /\ LastStep(r) = "CreateAnswerFailed" /\ req[r].dataChannel = "connecting"

\* C23: once server.Close() has closed the listener no handler invocation
\* begins.
C23_NoAcceptAfterClose ==
    /\ [](srvPc \in {"waiting", "waited", "complete", "exited"} => listener # "up")
    /\ [][\A r \in Req :
            (srvPc \in {"waiting", "waited", "complete", "exited"} /\ req[r].pc = "none")
               => req'[r].pc = "none"]_vars

C23_Witness ==
    /\ listener = "closed" /\ srvPc = "waited"
    /\ \E r \in Req : req[r].pc = "none"

\* the lifecycle phase of the server: 0 Idle, 1 SignalingUp, 2 Streaming (a
\* first session was registered), 3 Draining, 4 Closed
PhaseRank ==
    CASE srvPc = "start" -> 0
      [] srvPc \in {"pid", "await"} ->
            IF \E r \in Req : req[r].registered > 0 THEN 2 ELSE 1
      [] srvPc = "waiting" -> 3
      [] OTHER -> 4

\* C24: after a shutdown signal the started server reaches "Server shutdown
\* complete", given that its sessions run to their end; the lifecycle never
\* moves backwards.
C24_ShutdownTerminates ==
    /\ (shutdown /\ srvPc \in {"pid", "await", "waiting", "waited"}) ~> (srvPc = "complete")
    /\ [][PhaseRank' >= PhaseRank]_vars

C24_Witness ==
    /\ srvPc = "complete"
    /\ \E r \in Req : inFlight[r] >= 0 /\ sess[r].pc = "done" /\ sess[r].end = "exhausted"

\* a component of the server reported an error
ComponentError ==
    \/ listener = "failed"
    \/ \E r \in Req : sess[r].end \in {"openErr", "sendErr", "panic"}

\* C25: a server that exits after its drain exits with success exactly when
\* no component reported an error, and with failure otherwise.
C25_ExitReflectsErrors ==
    (srvPc = "exited" /\ shutdown /\ listener # "none") =>
        (srvExit = 0 <=> ~ComponentError)

\* C26: concurrent sessions do not touch each other: a step of one session,
\* a failed open or send included, changes no other session and no other
\* channel; each session reads the file from its first line with a position
\* of its own, so what it sent is always the file's first lines in order, and
\* the whole file when it ran to the end.
C26_SessionsIsolated ==
    /\ [](\A r \in Sess :
            /\ IsFirstLinesOf(sess[r].sent, srvFile)
            /\ sess[r].end = "exhausted" => IsLinesOf(sess[r].sent, srvFile))
    /\ [][srvPc' = srvPc =>
            \A r, q \in Sess :
                (r # q /\ sess'[r] # sess[r]) => (sess'[q] = sess[q] /\ req'[q] = req[q])]_vars

C26_Witness ==
    \E r, q \in Sess :
        /\ r # q
        /\ sess[r].end = "sendErr" /\ sess[r].pc = "done" /\ sess[r].sent = <<>>
        /\ sess[q].end = "exhausted" /\ sess[q].sent = << <<"a">>, <<"a">> >>

\* C27: on a shutdown signal the client closes its peer connection; when the
\* transport then reports the channel closed, dataChan is closed, the range
\* loop takes nothing more and ends.
C27_ClientShutdownClosesStream ==
    /\ []((cPc = "complete" \/ cExit = 0) =>
            (cShutdown /\ Places(cSteps, "Close") # {} /\ channel # "open"))
    /\ [](channel = "closed" => dataChanClosed)
    /\ [][dataChanClosed => UNCHANGED <<rxCount, cOut>>]_vars
    /\ dataChanClosed ~> (rxPc = "done" \/ cExit # -1)

C27_Witness ==
    /\ cPc = "complete" /\ channel = "closed" /\ dataChanClosed /\ rxPc = "done"
    /\ wire # <<>> /\ rxCount = 1

\* C28: a session that ends, by exhausting the file or by a failure, closes
\* its data channel; the client's dataChan is then closed only after every
\* line the session sent was handed over, and a receive loop that ends that
\* way has counted and written exactly the lines sent, in order.
C28_NaturalCompletion ==
    /\ [](sess[1].pc \in {"unregister", "done"} =>
            (sess[1].end # "none" /\ req[1].dataChannel = "closed"))
    /\ []((dataChanClosed /\ Places(cSteps, "Close") = {}) =>
            (req[1].dataChannel = "closed" /\ Handed = Len(sess[1].sent)))
    /\ []((rxPc = "done" /\ Places(cSteps, "Close") = {}) =>
            (rxCount = Len(sess[1].sent) /\ cOut = sess[1].sent))
    /\ (sess[1].pc = "done") ~> (rxPc = "done" \/ cShutdown \/ cExit # -1)

C28_Witness ==
    /\ sess[1].end = "exhausted" /\ sess[1].pc = "done"
    /\ rxPc = "done" /\ rxCount = 2 /\ cOut = << <<"a">>, <<"a">> >>
    /\ ~cShutdown

\* C29: the offer the handler unmarshals and applies is the client's finalized
\* offer, type and SDP text alike, and the answer the client unmarshals and
\* applies is the handler's finalized answer; neither side fails to parse
\* what the other wrote.
C29_RoundTrip ==
    /\ sgPc \notin {"badRequest", "exit"}
    /\ sgPc \in {"answer", "encode", "parse", "applied"} => sOffer = cOffer
    /\ sgPc = "applied" => cAnswer = sAnswer

C29_Witness ==
    /\ sgPc = "applied"
    /\ cOffer.sdp = <<"\\", "n">> /\ sOffer = cOffer
    /\ sAnswer.sdp = <<"\"", NL>> /\ cAnswer = sAnswer
    /\ offerJSON # cOffer.sdp

\* the negotiation steps among the steps of the client
Negotiation(st) ==
    SelectSeq(st, LAMBDA a : a \in {"NewPeerConnection", "CreateDataChannel", "CreateOffer",
                                    "SetLocalDescription", "GatheringComplete", "Post",
                                    "SetRemoteDescription"})

\* a send or a negotiation step has failed in the session of request 1: the
\* handler answered with an error, the client exited with 1 before its
\* handshake was complete, or streamFile ended on a failure
SessionFailed ==
    \/ req[1].status \in {400, 405, 500}
    \/ cExit = 1 /\ Places(cSteps, "PrintPid") = {}
    \/ sess[1].end \notin {"none", "exhausted"}

NegotiationFailedAtPost == cExit = 1 /\ Places(cSteps, "Post") # {} /\ Places(cSteps, "PrintPid") = {}

\* C31: a client whose POST fails, whose response is not 200 or not parsable,
\* or whose answer is rejected exits with 1; it applies no remote description
\* to a response that is not 200 or not parsable, starts no receiving loop
\* (the output is created just before it), takes no line and has POSTed once.
C31_ClientNegotiationFailure ==
    /\ [](Places(cSteps, "SetRemoteDescription") # {} =>
            (cResp.status = 200 /\ cResp.body # "garbage"))
    /\ []((cPc = "exited" /\ Places(cSteps, "Post") # {} /\ cResp = NoResp) => cExit = 1)
    /\ [][(cPc = "status" /\ ~(cResp.status = 200 /\ cResp.body # "garbage")) =>
             (cPc' = "exited" /\ cExit' = 1)]_vars
    /\ [][(cPc = "setremote" /\ cResp.body # "answer") => (cPc' = "exited" /\ cExit' = 1)]_vars
    /\ [](NegotiationFailedAtPost =>
            (rxPc = "none" /\ rxCount = 0 /\ cOut = <<>> /\ dataChan = <<>>
             /\ Cardinality(Places(cSteps, "Post")) = 1))
    /\ [][NegotiationFailedAtPost => cSteps' = cSteps /\ cExit' = 1]_vars

C31_Witness ==
    /\ NegotiationFailedAtPost
    /\ cResp.status = 200 /\ cResp.body = "garbage"
    /\ Places(cSteps, "SetRemoteDescription") = {}

\* the time StreamFile has spent in time.Sleep, in milliseconds
RECURSIVE SleptIn(_)
SleptIn(tr) ==
    IF tr = <<>> THEN 0
    ELSE (IF Head(tr)[1] = "sleep" THEN Head(tr)[2] ELSE 0) + SleptIn(Tail(tr))

\* C32: between any two calls of SendText StreamFile sleeps delayMs, and a run
\* that returns nil after N sends has slept at least (N-1) * delayMs.
C32_PacingLowerBound ==
    /\ \A i, j \in 1..Len(sfTrace) :
         (i < j /\ sfTrace[i][1] = "send" /\ sfTrace[j][1] = "send") =>
             \E k \in (i + 1)..(j - 1) : sfTrace[k] = <<"sleep", delayMs>>
    /\ (sfPc = "returned" /\ sfRet = "nil" /\ ~Panicked) =>
         SleptIn(sfTrace) >= (SendCalls - 1) * delayMs

C32_Witness ==
    /\ sfPc = "returned" /\ sfRet = "nil" /\ ~Panicked
    /\ SendCalls = 2 /\ delayMs = 1 /\ SleptIn(sfTrace) = 2

\* CLIENT_PID is printed after an accepted SetRemoteDescription
ClientPidAfterHandshake ==
    \A j \in Places(cSteps, "PrintPid") :
        /\ \E i \in 1..(j - 1) : cSteps[i] = "SetRemoteDescription"
        /\ cResp.status = 200 /\ cResp.body = "answer"

\* C33: SERVER_PID is printed only when the listener is up, and CLIENT_PID
\* only after the answer was applied as remote description.
C33_PidAfterStartup ==
    /\ pidAt # "none" => pidAt = "up"
    /\ ClientPidAfterHandshake

\* the sessions that called wg.Add(1) and have not called wg.Done()
Running == {r \in DOMAIN sess : Streaming(r)}

\* C34: while the server runs, the wait group counts the sessions that were
\* registered and are not yet unregistered, so it is never negative and is
\* zero when none runs; a session is unregistered only after its data channel
\* was closed, once, whatever ended streamFile; and every session that was
\* registered is unregistered in the end unless the process exits first.
C34_UnregisteredOnce ==
    /\ [](wg >= 0)
    /\ [](Alive => wg = Cardinality(Running))
    /\ [](\A r \in DOMAIN sess :
            sess[r].pc \in {"unregister", "done"} =>
                /\ req[r].dataChannel = "closed"
                /\ req[r].registered = 1
                /\ sess[r].end \in {"exhausted", "openErr", "sendErr", "panic"})
    /\ [][wg' < wg =>
            /\ wg' = wg - 1
            /\ \E r \in DOMAIN sess :
                 /\ sess[r].pc = "unregister" /\ sess'[r].pc = "done"
                 /\ \A q \in DOMAIN sess \ {r} : sess'[q] = sess[q]]_vars
    /\ [][\A r \in DOMAIN sess : sess[r].pc = "done" => sess'[r] = sess[r]]_vars
    /\ \A r \in Req : (sess[r].pc = "open") ~> (sess[r].pc = "done" \/ ~Alive)

C34_Witness ==
    /\ Alive /\ wg = 0
    /\ sess[1].pc = "done" /\ sess[1].end = "panic" /\ Len(sess[1].sent) = 1
    /\ req[1].dataChannel = "closed"

\* C35: a handler that fails after NewPeerConnection succeeded returns with
\* the peer connection it constructed still unreleased, and nothing releases
\* it afterwards.
C35_FailedHandlerLeaksConnection ==
    /\ [](\A r \in Req :
            (Failed(r) /\ Places(req[r].steps, "NewPeerConnection") # {}) =>
                req[r].peerConnection = "new")
    /\ [][\A r \in Req :
            (Failed(r) /\ req[r].peerConnection = "new") => req'[r].peerConnection = "new"]_vars

C35_Witness ==
    /\ srvPc = "exited"
    /\ req[1].status = 500 /\ req[1].peerConnection = "new"
    /\ LastStep(1) = "SetLocalDescriptionFailed"

\* C36: a handler that answers 200 has installed OnOpen before it wrote the
\* answer, and every data channel that opens starts a stream session in the
\* step in which it opens.
C36_CallbackBeforeAnswer ==
    /\ [](\A r \in Req :
            req[r].status = 200 =>
                /\ req[r].onOpen
                /\ \A j \in Places(req[r].steps, "Encode") :
                     \E i \in 1..(j - 1) : req[r].steps[i] = "OnOpen")
    /\ [](\A r \in Req : req[r].opened => (req[r].registered >= 1 /\ sess[r].pc # "none"))
    /\ [][\A r \in Req :
            (~req[r].opened /\ req'[r].opened) =>
                (req[r].status = 200 /\ sess'[r].pc = "open" /\ wg' = wg + 1)]_vars

C36_Witness ==
    /\ req[1].opened /\ req[1].status = 200
    /\ sess[1].pc = "done" /\ sess[1].end = "exhausted" /\ Len(sess[1].sent) = 2

\* C37: once the server has left wg.Wait no session is running, none was cut
\* off by the exit of the process, and no session starts.
C37_NoSessionEscapesDrain ==
    /\ [](\A r \in Req :
            srvPc \in {"waited", "complete", "exited"} =>
                (~Streaming(r) /\ sess[r].end # "killed"))
    /\ [][\A r \in Req :
            (srvPc \in {"waited", "complete", "exited"} /\ sess[r].pc = "none") =>
                sess'[r].pc = "none"]_vars

\* C38: dataChan is closed only by the OnClose callback and once, no value is
\* offered on it once it is closed, and no callback panics on it, whatever
\* the order of messages, the close of the channel and the client's shutdown.
C38_LineChannelClosedOnce ==
    /\ [](cExit # 2)
    /\ [](dataChanClosed => dataChan = <<>>)
    /\ [][dataChanClosed => (dataChanClosed' /\ dataChan' = <<>>)]_vars
    /\ [][(~dataChanClosed /\ dataChanClosed') =>
            (channel = "closing" /\ channel' = "closed")]_vars
    /\ [][channel = "closed" => channel' = "closed"]_vars

C38_Witness ==
    /\ dataChanClosed /\ channel = "closed"
    /\ Places(cSteps, "Close") # {} /\ cExit = 0
    /\ rxCount = 1 /\ wire # <<>>

\* C39: when the client reports "Client shutdown complete" and exits, its
\* receiving loop has ended and no delivered line is left unwritten.
C39_ReceiverDoneBeforeExit ==
    (cPc \in {"complete", "exited"} /\ Places(cSteps, "Close") # {}) =>
        (rxPc = "done" /\ dataChan = <<>>)

\* C40: a handler whose steps up to SetLocalDescription all succeeded has
\* sent no response while it waits for the gathering, leaves that wait only
\* when the gathering completes, and then answers 200, unless the process
\* ends first; and every request taken gets its response unless the process
\* ends first.
C40_HandshakeProgress ==
    /\ [](\A r \in Req :
            req[r].pc = "gather" =>
                (req[r].status = 0 /\ Places(req[r].steps, "SetLocalDescription") # {}))
    /\ [][\A r \in Req :
            (req[r].pc = "gather" /\ req'[r] # req[r]) =>
                (req'[r].pc = "write" /\ req'[r].status = 0
                 /\ req'[r].steps = Append(req[r].steps, "GatheringComplete"))]_vars
    /\ \A r \in Req : (req[r].pc = "gather") ~> (req[r].status = 200 \/ ~Alive)
    /\ \A r \in Req : (req[r].pc = "method") ~> (req[r].pc = "done" \/ ~Alive)

C40_Witness ==
    /\ Alive /\ req[1].status = 200 /\ req[1].pc = "done"
    /\ LastStep(1) = "Encode"
    /\ Places(req[1].steps, "GatheringComplete") # {}

\* C2: a source that delivers no line, puts one error other than io.EOF on the
\* error stream and then closes both streams makes ProcessLines return count 0
\* and that error.
C2_SignalledErrorReturned ==
    (plPc = "returned" /\ mLines = <<>> /\ mErr = "testErr" /\ output # "dir") =>
        plRet.count = 0 /\ plRet.err = "testErr"

\* C3: when the write of the k-th line fails ProcessLines returns count k-1 and
\* the write error, and the sink still holds the k-1 lines written before.
C3_WriteErrorCount ==
    (plPc = "returned" /\ plRet.err = "writeErr") =>
        /\ plRet.count = writeFailAt - 1
        /\ sink = FramedAll(SubSeq(mLines, 1, writeFailAt - 1))

=============================================================================
